---- MODULE Spec2Model ----
(***************************************************************************)
(* Model of the PC-build video pipeline (src/scraper/pcvideoscrapper):     *)
(* VideoMetadataExtractor, TwelveLabsClient, StepExtractor and             *)
(* PCBuildVideoPipeline.                                                   *)
(*                                                                         *)
(* Conventions.                                                            *)
(*  - A number carried by a search hit is a record [num, v]: num is FALSE  *)
(*    for a value pydantic's float validation rejects (None, a non-numeric *)
(*    string); v is the number of seconds.                                 *)
(*  - A relevance score is an integer number of hundredths (0.8 is 80).    *)
(*  - A text (title, description, transcript) is the set of the keywords   *)
(*    that occur in its lower-cased form: every test the code makes on a   *)
(*    text is `keyword in text.lower()`.                                   *)
(*  - Python's None is the string "None" where the value is a string.      *)
(***************************************************************************)
EXTENDS Integers, Sequences, FiniteSets, TLC

VARIABLES
    entry,                \* the public method the caller invoked
    pc,                   \* control position inside that call
    index_id,             \* TwelveLabsClient.index_id
    twelve_labs_index_id, \* PCBuildVideoPipeline.__init__ argument
    runs,                 \* concurrent upload_video calls inside _download_video
    skip_validation,      \* process_video argument
    wait_for_completion,  \* upload_video argument
    source,               \* what the video source resolver knows of the URL
    metadata,             \* VideoMetadata built by extract_metadata
    cache,                \* files of the videos/ directory
    video_file_path,      \* upload_video local
    task,                 \* upload_video local: the upload task
    status,               \* upload_video local: last task status retrieved
    video_id,             \* upload_video local / process_video twelve_labs_video_id
    custom_queries,       \* extract_steps_from_video argument (<< >> is None)
    queries,              \* extract_steps_from_video local
    qi,                   \* index of the query being processed
    page_limit,           \* search_semantic argument
    transport,            \* search_semantic local search_results (the pager)
    results,              \* hit records returned by search_semantic, not yet converted
    ri,                   \* index in results of the next hit to convert
    all_steps,            \* extract_steps_from_video local
    remaining,            \* clips the service still yields in this run
    service_indexes,      \* the indexes that exist on the service, in creation order
    processed,            \* save_results argument result
    output_file,          \* the JSON document stored at output_path
    searches,             \* history: the parameters of each search call issued
    calls,                \* history: external calls made, in order
    faults,               \* history: external calls that raised
    dropped,              \* history: hits dropped by a caught conversion error
    ret,                  \* value returned to the caller
    error                 \* exception propagated to the caller

vars == << entry, pc, index_id, twelve_labs_index_id, runs, skip_validation, wait_for_completion, source,
           metadata, cache, video_file_path, task, status, video_id,
           custom_queries, queries,
           qi, page_limit, transport, results, ri, all_steps, remaining,
           service_indexes, processed, output_file, searches,
           calls, faults, dropped, ret, error >>

None == "None"

\* ------------------------------------------------------------------ bounds
\* Largest start/end second a hit carries.
MaxStart == 1
\* Most clips one transport result holds when search_semantic is called alone.
MaxTransport == 3
\* Most clips the service yields over one extraction with custom queries.
MaxClips == 3
\* Most clips the service yields over one extraction with the 11 default queries.
MaxClipsDefault == 1
\* Largest page_limit a direct caller of search_semantic passes.
MaxLimit == 2
\* Most polls of one upload_video call that find the task or the video
\* still in progress.
MaxPolls == 2

\* Most steps of a ProcessedVideo handed to save_results.
MaxSaved == 2

\* Most create_index calls made on one client.
MaxCreates == 4

\* Calls of upload_video that run at the same time.
MaxRuns == 3

\* --------------------------------------------------------------- utilities
Min(a, b) == IF a <= b THEN a ELSE b

SeqsUpTo(S, n) == UNION { [1..k -> S] : k \in 0..n }

Num(n) == [num |-> TRUE, v |-> n]

NotANumber == [num |-> FALSE, v |-> 0]

\* any(word in text_lower for word in words)
AnyIn(words, text) == words \cap text # {}

\* ------------------------------------------------------------- schemas.py
ComponentType == { "CPU", "RAM", "GPU", "Motherboard", "PSU", "Cooler",
                   "Storage", "Cables" }

ActionType == { "insert", "mount", "connect", "align", "lock", "remove" }

Platform == { "AM4", "AM5", "LGA1700", "LGA1200", "unknown" }

FormFactor == { "ATX", "mATX", "ITX", "EATX", "unknown" }

SourceConfidence == { "explicitly_shown", "verbally_explained", "inferred" }

SemanticQuery(text, component, action) ==
    [ query_text |-> text, component |-> component, action |-> action ]

\* Timestamp(start=..., end=...): two float fields and no validator.
TimestampValid(start, end) == start.num /\ end.num

Timestamp(start, end) == [ start |-> start.v, end |-> end.v ]

\* ------------------------------------------------------- step_extractor.py
SEMANTIC_QUERIES ==
    << SemanticQuery("Show when the CPU is inserted into the motherboard socket", "CPU", "insert"),
       SemanticQuery("Find moments where RAM memory modules are installed into slots", "RAM", "insert"),
       SemanticQuery("Show when the GPU graphics card is installed into the PCIe slot", "GPU", "insert"),
       SemanticQuery("Find when the CPU cooler is mounted on top of the processor", "Cooler", "mount"),
       SemanticQuery("Show when the power supply PSU is installed into the case", "PSU", "mount"),
       SemanticQuery("Find moments where storage drives or SSDs are being installed", "Storage", "mount"),
       SemanticQuery("Show when cables are being connected to the motherboard or components", "Cables", "connect"),
       SemanticQuery("Find when the creator shows correct alignment or orientation of components", None, "align"),
       SemanticQuery("When does the creator warn about mistakes or show incorrect installation", None, None),
       SemanticQuery("Find steps where force should not be applied or warnings about damage", None, None),
       SemanticQuery("Show moments where locks or latches are being secured", None, "lock") >>

\* page_limit=10 of the search call in extract_steps_from_video.
ExtractPageLimit == 10

\* Score thresholds of the confidence mapping, in hundredths.
HighScore == 80

MediumScore == 60

\* The mapping with the label deciding alone when the hit carries one.
source_confidence_label_first(confidence, score) ==
    IF confidence = "high" THEN "explicitly_shown"
    ELSE IF confidence = "medium" THEN "verbally_explained"
    ELSE IF confidence = "low" THEN "inferred"
    ELSE IF score > HighScore THEN "explicitly_shown"
    ELSE IF score > MediumScore THEN "verbally_explained"
    ELSE "inferred"

source_confidence_inclusive(confidence, score) ==
    IF confidence = "high" \/ score >= HighScore THEN "explicitly_shown"
    ELSE IF confidence = "medium" \/ score >= MediumScore THEN "verbally_explained"
    ELSE "inferred"

\* if confidence == "high" or score > 0.8: ... elif confidence == "medium" or
\* score > 0.6: ... else: ...
source_confidence(confidence, score) ==
    IF confidence = "high" \/ score > HighScore THEN "explicitly_shown"
    ELSE IF confidence = "medium" \/ score > MediumScore THEN "verbally_explained"
    ELSE "inferred"

_detect_component(text) ==
    IF AnyIn({"cpu", "processor", "ryzen", "intel"}, text) THEN "CPU"
    ELSE IF AnyIn({"ram", "memory", "dimm"}, text) THEN "RAM"
    ELSE IF AnyIn({"gpu", "graphics card", "video card"}, text) THEN "GPU"
    ELSE IF AnyIn({"cooler", "heatsink", "fan"}, text) THEN "Cooler"
    ELSE IF AnyIn({"psu", "power supply"}, text) THEN "PSU"
    ELSE IF AnyIn({"ssd", "nvme", "storage", "hard drive"}, text) THEN "Storage"
    ELSE IF AnyIn({"motherboard", "mobo"}, text) THEN "Motherboard"
    ELSE IF AnyIn({"cable", "wire", "connector"}, text) THEN "Cables"
    ELSE "Motherboard"

_detect_action(text) ==
    IF AnyIn({"insert", "installing", "install", "put in", "slot in"}, text) THEN "insert"
    ELSE IF AnyIn({"mount", "mounting", "screw", "attach"}, text) THEN "mount"
    ELSE IF AnyIn({"connect", "plug", "cable", "wire"}, text) THEN "connect"
    ELSE IF AnyIn({"align", "orientation", "direction", "arrow"}, text) THEN "align"
    ELSE IF AnyIn({"lock", "latch", "secure", "clip"}, text) THEN "lock"
    ELSE IF AnyIn({"remove", "take out", "uninstall"}, text) THEN "remove"
    ELSE "insert"

\* description = description[:500]
DescriptionLimit == 500

\* A text with its length and its keyword occurrences: [kw, last] is an
\* occurrence of kw whose last character stands at position last (from 1).
Text(len, occ) == [ len |-> len, occ |-> occ ]

\* The keywords that occur in a text.
Keywords(t) == { o.kw : o \in t.occ }

\* " ".join(description_parts): the transcript of the hit, whole.
JoinParts(result) == Text(result.text_len, result.text)

\* The text kept whole.
NoTruncate(t, n) == t

\* t[:n]: the first n characters, and the occurrences that lie within them.
Truncate(t, n) ==
    Text(Min(t.len, n), { o \in t.occ : o.last <= n })

\* The keyword of the lower-cased component name, and its length.
PlaceholderKeyword(expected_component) ==
    CASE expected_component = "CPU" -> [ kw |-> "cpu", last |-> 3 ]
      [] expected_component = "RAM" -> [ kw |-> "ram", last |-> 3 ]
      [] expected_component = "GPU" -> [ kw |-> "gpu", last |-> 3 ]
      [] expected_component = "Motherboard" -> [ kw |-> "motherboard", last |-> 11 ]
      [] expected_component = "PSU" -> [ kw |-> "psu", last |-> 3 ]
      [] expected_component = "Cooler" -> [ kw |-> "cooler", last |-> 6 ]
      [] expected_component = "Storage" -> [ kw |-> "storage", last |-> 7 ]
      [] expected_component = "Cables" -> [ kw |-> "cable", last |-> 5 ]

\* f"Assembly step for {expected_component or 'component'}": 18 characters
\* and the name; "component" holds no keyword of either detector.
PlaceholderDescription(expected_component) ==
    IF expected_component = None THEN Text(27, {})
    ELSE LET k == PlaceholderKeyword(expected_component)
         IN  Text(18 + k.last + (IF expected_component = "Cables" THEN 1 ELSE 0),
                  { [ kw |-> k.kw, last |-> 18 + k.last ] })

\* Lines 155-158 run before the try block: a ValidationError of Timestamp is
\* not caught by _result_to_assembly_step.
TimestampRaises(result) == ~TimestampValid(result.start, result.end)

\* AssemblyStep(...) inside the try block: every argument is built by the
\* method from well-typed values except visual_cues, whose entries come
\* from the hit unchecked.
AssemblyStepValid(result) == result.visual_ok

\* The platform left to the default of the AssemblyStep field.
StepPlatformDefault(md) == "unknown"

\* platform = metadata.platform or Platform.UNKNOWN
StepPlatform(md) == IF md.platform # None THEN md.platform ELSE "unknown"

\* form_factor = metadata.form_factor or FormFactor.UNKNOWN
StepFormFactor(md) == IF md.form_factor # None THEN md.form_factor ELSE "unknown"

\* The conversion with the operands of both `or` swapped: detection first.
_result_to_assembly_step_detect_first(result, md, expected_component, expected_action) ==
    LET description == Truncate(IF result.has_text THEN JoinParts(result)
                                ELSE PlaceholderDescription(expected_component),
                                DescriptionLimit)
    IN  [ component |-> _detect_component(Keywords(description)),
          action |-> _detect_action(Keywords(description)),
          platform |-> StepPlatform(md),
          form_factor |-> StepFormFactor(md),
          step_order |-> 0,
          description |-> description,
          timestamp |-> Timestamp(result.start, result.end),
          video_id |-> md.video_id,
          source_confidence |-> source_confidence(result.confidence, result.score),
          src |-> << 0, 0 >> ]

\* The step built by lines 154-217 when no validation fails.
_result_to_assembly_step(result, md, expected_component, expected_action) ==
    LET description == Truncate(IF result.has_text THEN JoinParts(result)
                                ELSE PlaceholderDescription(expected_component),
                                DescriptionLimit)
    IN  [ component |-> IF expected_component # None THEN expected_component
                        ELSE _detect_component(Keywords(description)),
          action |-> IF expected_action # None THEN expected_action
                     ELSE _detect_action(Keywords(description)),
          platform |-> StepPlatform(md),
          form_factor |-> StepFormFactor(md),
          step_order |-> 0,
          description |-> description,
          timestamp |-> Timestamp(result.start, result.end),
          video_id |-> md.video_id,
          source_confidence |-> source_confidence(result.confidence, result.score),
          src |-> << 0, 0 >> ]

RECURSIVE InsertStable(_, _)
\* s is sorted by timestamp.start; x goes after the entries whose key is <= its own.
InsertStable(s, x) ==
    IF s = << >> THEN << x >>
    ELSE IF x.timestamp.start < Head(s).timestamp.start THEN << x >> \o s
    ELSE << Head(s) >> \o InsertStable(Tail(s), x)

RECURSIVE InsertUnstable(_, _)
InsertUnstable(s, x) ==
    IF s = << >> THEN << x >>
    ELSE IF x.timestamp.start <= Head(s).timestamp.start THEN << x >> \o s
    ELSE << Head(s) >> \o InsertUnstable(Tail(s), x)

RECURSIVE SortUnstable(_)
SortUnstable(s) ==
    IF s = << >> THEN << >>
    ELSE InsertUnstable(SortUnstable(SubSeq(s, 1, Len(s) - 1)), s[Len(s)])

\* The list left in first-seen order.
KeepOrder(s) == s

RECURSIVE SortByStart(_)
\* all_steps.sort(key=lambda x: x.timestamp.start): list.sort is stable.
SortByStart(s) ==
    IF s = << >> THEN << >>
    ELSE InsertStable(SortByStart(SubSeq(s, 1, Len(s) - 1)), s[Len(s)])

\* for idx, step in enumerate(all_steps): step.step_order = idx + 1
AssignStepOrder(s) == [ i \in DOMAIN s |-> [ s[i] EXCEPT !.step_order = i ] ]

\* queries = custom_queries or self.SEMANTIC_QUERIES (None and [] are falsy)
QueriesOf(custom) ==
    IF custom = << >> THEN SEMANTIC_QUERIES ELSE custom

\* ---------------------------------------------- video_metadata_extractor.py
\* The inference ending in the enumeration's catch-all member.
infer_platform_unknown_default(text) ==
    IF AnyIn({"am5", "ryzen 7000", "ryzen 9000"}, text) THEN "AM5"
    ELSE IF AnyIn({"am4", "ryzen 5000", "ryzen 3000"}, text) THEN "AM4"
    ELSE IF AnyIn({"lga1700", "12th gen", "13th gen", "14th gen"}, text) THEN "LGA1700"
    ELSE IF AnyIn({"lga1200", "10th gen", "11th gen"}, text) THEN "LGA1200"
    ELSE "unknown"

\* combined = f"{title.lower()} {description.lower() ...}"; four tests in
\* order, return None at the end.
infer_platform(text) ==
    IF AnyIn({"am5", "ryzen 7000", "ryzen 9000"}, text) THEN "AM5"
    ELSE IF AnyIn({"am4", "ryzen 5000", "ryzen 3000"}, text) THEN "AM4"
    ELSE IF AnyIn({"lga1700", "12th gen", "13th gen", "14th gen"}, text) THEN "LGA1700"
    ELSE IF AnyIn({"lga1200", "10th gen", "11th gen"}, text) THEN "LGA1200"
    ELSE None

\* The metadata with a form factor read off the text.
VideoMetadataWithFormFactor(src) ==
    [ video_id |-> src.id, text |-> src.text,
      platform |-> infer_platform(src.text),
      form_factor |-> IF "mini-itx" \in src.text THEN "ITX" ELSE None ]

\* VideoMetadata(...) of extract_metadata: form_factor is not passed and
\* keeps its default None.
VideoMetadata(src) ==
    [ video_id |-> src.id, text |-> src.text,
      platform |-> infer_platform(src.text), form_factor |-> None ]

NoMetadata == [ video_id |-> None, text |-> {}, platform |-> None, form_factor |-> None ]

\* The content check with the PC-related test ahead of the exclusion test.
validate_video_content_accept_first(md) ==
    IF AnyIn({"pc", "computer", "gaming rig", "build", "cpu", "gpu", "motherboard",
              "ram", "graphics", "components", "parts", "install", "setup",
              "assembly", "tutorial", "guide", "how to"}, md.text)
    THEN TRUE
    ELSE FALSE

validate_video_content(md) ==
    IF AnyIn({"unboxing only", "reaction video", "roast", "fails compilation",
              "worst builds ever"}, md.text)
    THEN FALSE
    ELSE AnyIn({"pc", "computer", "gaming rig", "build", "cpu", "gpu", "motherboard",
                "ram", "graphics", "components", "parts", "install", "setup",
                "assembly", "tutorial", "guide", "how to"}, md.text)

\* ---------------------------------------------------- twelve_labs_client.py
\* result = {"video_id": clip.video_id, "score": clip.score, ...}: the
\* fields of the clip, copied.
ClipToResult(clip) ==
    [ score |-> clip.score, confidence |-> clip.confidence,
      start |-> clip.start, end |-> clip.end,
      has_text |-> clip.has_text, text |-> clip.text, text_len |-> clip.text_len,
      visual_ok |-> clip.visual_ok ]

ParseAll(search_results, limit) ==
    [ i \in 1..Len(search_results) |-> ClipToResult(search_results[i]) ]

\* for clip in search_results: if len(results) >= page_limit: break; ...
ParseResults(search_results, limit) ==
    [ i \in 1..Min(Len(search_results), limit) |-> ClipToResult(search_results[i]) ]

\* search_params of search_semantic: the filter is set only for a truthy video_id.
SearchParams(query, id, limit) ==
    [ query_text |-> query.query_text, page_limit |-> limit,
      filter |-> IF id # None THEN id ELSE None ]

StartsWith(name, prefix) ==
    Len(prefix) <= Len(name) /\ SubSeq(name, 1, Len(prefix)) = prefix

\* cached_files = [f for f in os.listdir(videos_dir) if f.startswith(video_id)]
CachedFiles(files, id) ==
    { f \in files : StartsWith(f.name, id) }

NoFile == [ name |-> << >>, size |-> 0 ]

\* No concurrent calls.
NoRuns == << >>

NoStatus == [ status |-> None, video_id |-> None, metadata |-> None ]

NoError == [ type |-> None, status |-> None, details |-> None ]

Error(type) == [ type |-> type, status |-> None, details |-> None ]

\* error_msg = f"Video upload failed with status: {status.status}" and, when
\* the status object has a metadata attribute, f"\nDetails: {status.metadata}"
UploadFailedError(st) ==
    [ type |-> "Exception", status |-> st.status, details |-> st.metadata ]

NoReturn == [ kind |-> None, val |-> << >> ]

\* No ProcessedVideo handed to save_results, no document written.
NoProcessed == [ absent |-> TRUE ]

NoDocument == [ absent |-> TRUE ]

\* ------------------------------------------------------------ pipeline.py
ProcessedVideoDefaultTotal(md, assembly_steps, twelve_labs_video_id) ==
    [ metadata |-> md, assembly_steps |-> assembly_steps,
      twelve_labs_video_id |-> twelve_labs_video_id,
      total_steps_extracted |-> 0 ]

\* ProcessedVideo(metadata=..., assembly_steps=..., twelve_labs_video_id=...,
\* processing_timestamp=..., total_steps_extracted=len(assembly_steps))
ProcessedVideo(md, assembly_steps, twelve_labs_video_id) ==
    [ metadata |-> md, assembly_steps |-> assembly_steps,
      twelve_labs_video_id |-> twelve_labs_video_id,
      total_steps_extracted |-> Len(assembly_steps) ]

\* ----------------------------------------- pipeline.py: save and load
\* Python values as the round trip sees them: k is the type (an
\* enumeration class for a member), s the text of a string or the value of
\* a member, n a number, l the items of a list of strings.
PyStr(str) == [ k |-> "str", s |-> str, n |-> 0, l |-> << >> ]

PyEnum(cls, value) == [ k |-> cls, s |-> value, n |-> 0, l |-> << >> ]

PyFloat(x) == [ k |-> "float", s |-> "", n |-> x, l |-> << >> ]

PyInt(x) == [ k |-> "int", s |-> "", n |-> x, l |-> << >> ]

PyNone == [ k |-> "none", s |-> "", n |-> 0, l |-> << >> ]

PyList(items) == [ k |-> "list", s |-> "", n |-> 0, l |-> items ]

\* The value a failed validation stands for.
Invalid == [ k |-> "invalid", s |-> "", n |-> 0, l |-> << >> ]

\* JSON tokens: a string, a number written with a fraction, a number
\* written without, null, an array of strings.
JString(str) == [ k |-> "jstring", s |-> str, n |-> 0, l |-> << >> ]

JReal(x) == [ k |-> "jreal", s |-> "", n |-> x, l |-> << >> ]

JInteger(x) == [ k |-> "jinteger", s |-> "", n |-> x, l |-> << >> ]

JNull == [ k |-> "jnull", s |-> "", n |-> 0, l |-> << >> ]

JArray(items) == [ k |-> "jarray", s |-> "", n |-> 0, l |-> items ]

\* The values of the enumerations of schemas.py.
EnumValues ==
    [ ComponentType |-> ComponentType, ActionType |-> ActionType,
      Platform |-> Platform, FormFactor |-> FormFactor,
      VideoType |-> { "full_build", "cpu_install", "cooler_install", "ram_install",
                      "gpu_install", "cable_management" },
      SkillLevel |-> { "beginner", "intermediate", "advanced" },
      SourceConfidence |-> SourceConfidence ]

\* A declared field type: its base type and whether None is accepted.
FieldType(base, optional) == [ base |-> base, optional |-> optional ]

VideoMetadataFields ==
    [ video_id |-> FieldType("str", FALSE), title |-> FieldType("str", FALSE),
      channel_name |-> FieldType("str", FALSE), url |-> FieldType("str", FALSE),
      video_type |-> FieldType("VideoType", FALSE),
      skill_level |-> FieldType("SkillLevel", FALSE),
      platform |-> FieldType("Platform", TRUE),
      form_factor |-> FieldType("FormFactor", TRUE),
      duration_seconds |-> FieldType("float", TRUE),
      upload_date |-> FieldType("str", TRUE),
      description |-> FieldType("str", TRUE) ]

TimestampFields ==
    [ start |-> FieldType("float", FALSE), end |-> FieldType("float", FALSE) ]

\* The fields of AssemblyStep but timestamp, which is a Timestamp.
AssemblyStepFields ==
    [ component |-> FieldType("ComponentType", FALSE),
      action |-> FieldType("ActionType", FALSE),
      platform |-> FieldType("Platform", FALSE),
      form_factor |-> FieldType("FormFactor", FALSE),
      step_order |-> FieldType("int", TRUE),
      description |-> FieldType("str", FALSE),
      visual_cues |-> FieldType("list", FALSE),
      common_errors |-> FieldType("list", FALSE),
      video_id |-> FieldType("str", FALSE),
      source_confidence |-> FieldType("SourceConfidence", FALSE) ]

\* The fields of ProcessedVideo but metadata and assembly_steps.
ProcessedVideoFields ==
    [ twelve_labs_video_id |-> FieldType("str", TRUE),
      processing_timestamp |-> FieldType("str", TRUE),
      total_steps_extracted |-> FieldType("int", FALSE) ]

\* json.dump of one value: a str, and a member of a str enumeration (a str
\* instance), is written as a string; a float with a fraction part or
\* ".0"; an int without; None as null.
json_dump_value(v) ==
    CASE v.k = "str" -> JString(v.s)
      [] v.k \in DOMAIN EnumValues -> JString(v.s)
      [] v.k = "float" -> JReal(v.n)
      [] v.k = "int" -> JInteger(v.n)
      [] v.k = "none" -> JNull
      [] v.k = "list" -> JArray(v.l)

\* json.load of one token.
json_load_value(j) ==
    CASE j.k = "jstring" -> PyStr(j.s)
      [] j.k = "jreal" -> PyFloat(j.n)
      [] j.k = "jinteger" -> PyInt(j.n)
      [] j.k = "jnull" -> PyNone
      [] j.k = "jarray" -> PyList(j.l)
      [] OTHER -> Invalid

\* pydantic validation of one input value against a declared type;
\* use_enum_values stores the value of a member in place of the member.
validate_value(type, v, use_enum_values) ==
    IF v.k = "none" THEN (IF type.optional THEN PyNone ELSE Invalid)
    ELSE CASE type.base = "str" -> IF v.k = "str" THEN v ELSE Invalid
           [] type.base = "float" -> IF v.k \in { "float", "int" } THEN PyFloat(v.n) ELSE Invalid
           [] type.base = "int" -> IF v.k \in { "float", "int" } THEN PyInt(v.n) ELSE Invalid
           [] type.base = "list" -> IF v.k = "list" THEN v ELSE Invalid
           [] OTHER ->
                IF v.k \in { "str", type.base } /\ v.s \in EnumValues[type.base]
                THEN (IF use_enum_values THEN PyStr(v.s) ELSE PyEnum(type.base, v.s))
                ELSE Invalid

\* result.model_dump(): the dict of the field values, nested models as dicts.
model_dump(x) ==
    [ metadata |-> [ f \in DOMAIN VideoMetadataFields |-> x.metadata[f] ],
      assembly_steps |->
          [ i \in DOMAIN x.assembly_steps |->
              [ fields |-> [ f \in DOMAIN AssemblyStepFields |-> x.assembly_steps[i].fields[f] ],
                timestamp |-> [ f \in DOMAIN TimestampFields |-> x.assembly_steps[i].timestamp[f] ] ] ],
      fields |-> [ f \in DOMAIN ProcessedVideoFields |-> x.fields[f] ] ]

\* json.dump(data, f, ...): the document written to the file, value by value.
json_dump(data) ==
    [ metadata |-> [ f \in DOMAIN data.metadata |-> json_dump_value(data.metadata[f]) ],
      assembly_steps |->
          [ i \in DOMAIN data.assembly_steps |->
              [ fields |-> [ f \in DOMAIN data.assembly_steps[i].fields |->
                                json_dump_value(data.assembly_steps[i].fields[f]) ],
                timestamp |-> [ f \in DOMAIN data.assembly_steps[i].timestamp |->
                                   json_dump_value(data.assembly_steps[i].timestamp[f]) ] ] ],
      fields |-> [ f \in DOMAIN data.fields |-> json_dump_value(data.fields[f]) ] ]

\* json.load(f): the dict read from the file, token by token.
json_load(document) ==
    [ metadata |-> [ f \in DOMAIN document.metadata |-> json_load_value(document.metadata[f]) ],
      assembly_steps |->
          [ i \in DOMAIN document.assembly_steps |->
              [ fields |-> [ f \in DOMAIN document.assembly_steps[i].fields |->
                                json_load_value(document.assembly_steps[i].fields[f]) ],
                timestamp |-> [ f \in DOMAIN document.assembly_steps[i].timestamp |->
                                   json_load_value(document.assembly_steps[i].timestamp[f]) ] ] ],
      fields |-> [ f \in DOMAIN document.fields |-> json_load_value(document.fields[f]) ] ]

\* The load that passes the two required fields only.
ProcessedVideoRequiredOnly(data) ==
    [ metadata |-> [ f \in DOMAIN VideoMetadataFields |->
                        validate_value(VideoMetadataFields[f], data.metadata[f], FALSE) ],
      assembly_steps |->
          [ i \in DOMAIN data.assembly_steps |->
              [ fields |-> [ f \in DOMAIN AssemblyStepFields |->
                                validate_value(AssemblyStepFields[f],
                                               data.assembly_steps[i].fields[f], TRUE) ],
                timestamp |-> [ f \in DOMAIN TimestampFields |->
                                   validate_value(TimestampFields[f],
                                                  data.assembly_steps[i].timestamp[f], FALSE) ] ] ],
      fields |-> [ twelve_labs_video_id |-> PyNone, processing_timestamp |-> PyNone,
                   total_steps_extracted |-> PyInt(0) ] ]

\* ProcessedVideo(**data): every field validated against its declaration;
\* AssemblyStep has use_enum_values, the other models have not.
ProcessedVideoFromData(data) ==
    [ metadata |-> [ f \in DOMAIN VideoMetadataFields |->
                        validate_value(VideoMetadataFields[f], data.metadata[f], FALSE) ],
      assembly_steps |->
          [ i \in DOMAIN data.assembly_steps |->
              [ fields |-> [ f \in DOMAIN AssemblyStepFields |->
                                validate_value(AssemblyStepFields[f],
                                               data.assembly_steps[i].fields[f], TRUE) ],
                timestamp |-> [ f \in DOMAIN TimestampFields |->
                                   validate_value(TimestampFields[f],
                                                  data.assembly_steps[i].timestamp[f], FALSE) ] ] ],
      fields |-> [ f \in DOMAIN ProcessedVideoFields |->
                      validate_value(ProcessedVideoFields[f], data.fields[f], FALSE) ] ]

\* The leaves of a tree.
Leaves(d) ==
    { d.metadata[f] : f \in DOMAIN d.metadata }
    \cup { d.fields[f] : f \in DOMAIN d.fields }
    \cup UNION { { d.assembly_steps[i].fields[f] : f \in DOMAIN d.assembly_steps[i].fields }
                 \cup { d.assembly_steps[i].timestamp[f] :
                        f \in DOMAIN d.assembly_steps[i].timestamp } :
                 i \in DOMAIN d.assembly_steps }

\* pydantic raises ValidationError when a field does not validate.
ValidationFails(x) == Invalid \in Leaves(x)

\* ------------------------------------------------------------------ frames
\* What the steps of a single call leave alone: its arguments, and the
\* concurrent calls.
argVars == << entry, twelve_labs_index_id, skip_validation, wait_for_completion, source,
             custom_queries, runs >>

uploadVars == << cache, video_file_path, task, status, video_id >>

extractVars == << queries, qi, page_limit, transport, results, ri, all_steps,
                  remaining, dropped >>

persistVars == << processed, output_file >>

Call(op, obs) == [ op |-> op, obs |-> obs ]

\* An exception leaves the invoked method: nothing is returned.
Raise(e) == pc' = "raised" /\ error' = e /\ ret' = ret

\* ------------------------------------------- TwelveLabsClient.create_index
\* The id the service gives the next index it creates.
NewIndexId == "idx" \o ToString(Len(service_indexes) + 1)

\* index = self.client.indexes.create(index_name=..., models=[...]);
\* self.index_id = index.id; return index.id. The call is made on every
\* invocation; nothing looks for an index of that name first.
CreateIndexReturns(Names) ==
    /\ pc = "ready"
    /\ Len(calls) < MaxCreates
    /\ \E index_name \in Names :
          LET index == [ id |-> NewIndexId, name |-> index_name ]
          IN  /\ service_indexes' = Append(service_indexes, index)
              /\ index_id' = index.id
              /\ ret' = [ kind |-> "id", val |-> index.id ]
    /\ calls' = Append(calls, Call("indexes.create", "ok"))
    /\ error' = NoError
    /\ UNCHANGED << argVars, persistVars, searches, metadata, uploadVars, extractVars,
                    faults, pc >>

\* self.client.indexes.create(...) raises (a service that refuses a second
\* index of the same name raises here): nothing is stored or returned.
CreateIndexRaises ==
    /\ pc = "ready"
    /\ Len(calls) < MaxCreates
    /\ calls' = Append(calls, Call("indexes.create", "raise"))
    /\ faults' = faults + 1
    /\ error' = Error("ServiceError")
    /\ ret' = NoReturn
    /\ UNCHANGED << argVars, persistVars, service_indexes, searches, index_id, metadata,
                    uploadVars, extractVars, pc >>

\* ---------------------------------------- TwelveLabsClient.search_semantic
\* if not self.index_id: raise ValueError(...)
SearchSemanticNoIndex ==
    /\ pc = "search"
    /\ index_id = None
    /\ Raise(Error("ValueError"))
    /\ UNCHANGED << argVars, persistVars, service_indexes, searches, index_id, metadata, uploadVars, extractVars, calls, faults >>

\* The raised search call taken for a search without hits.
SearchSemanticSwallows ==
    /\ pc = "search"
    /\ index_id # None
    /\ searches' = Append(searches, SearchParams(queries[qi], video_id, page_limit))
    /\ calls' = Append(calls, Call("search.query", "raise"))
    /\ faults' = faults + 1
    /\ transport' = << >>
    /\ results' = << >>
    /\ ri' = 1
    /\ pc' = "convert"
    /\ UNCHANGED << argVars, persistVars, service_indexes, index_id, metadata, uploadVars, queries, qi, page_limit,
                    all_steps, remaining, dropped, ret, error >>

\* self.client.search.query(**search_params) raises.
SearchSemanticRaises ==
    /\ pc = "search"
    /\ index_id # None
    /\ searches' = Append(searches, SearchParams(queries[qi], video_id, page_limit))
    /\ calls' = Append(calls, Call("search.query", "raise"))
    /\ faults' = faults + 1
    /\ Raise(Error("ServiceError"))
    /\ UNCHANGED << argVars, persistVars, service_indexes, index_id, metadata, uploadVars, extractVars >>

\* The search call yields a pager of clips; the loop keeps the first page_limit.
SearchSemanticReturns(Clips) ==
    /\ pc = "search"
    /\ index_id # None
    /\ \E search_results \in SeqsUpTo(Clips, remaining) :
          /\ transport' = search_results
          /\ results' = ParseResults(search_results, page_limit)
          /\ remaining' = remaining - Len(search_results)
    /\ searches' = Append(searches, SearchParams(queries[qi], video_id, page_limit))
    /\ calls' = Append(calls, Call("search.query", "ok"))
    /\ ri' = 1
    /\ IF entry = "search_semantic"
       THEN pc' = "done" /\ ret' = [ kind |-> "hits", val |-> results' ]
       ELSE pc' = "convert" /\ ret' = ret
    /\ UNCHANGED << argVars, persistVars, service_indexes, index_id, metadata, uploadVars, queries, qi, page_limit,
                    all_steps, dropped, faults, error >>

\* ---------------------------------- StepExtractor.extract_steps_from_video
\* queries = custom_queries or self.SEMANTIC_QUERIES; all_steps = []
ExtractStart ==
    /\ pc = "extract_start"
    /\ queries' = QueriesOf(custom_queries)
    /\ all_steps' = << >>
    /\ qi' = 1
    /\ page_limit' = ExtractPageLimit
    /\ pc' = "search"
    /\ UNCHANGED << argVars, persistVars, service_indexes, searches, index_id, metadata, uploadVars, transport, results, ri,
                    remaining, dropped, calls, faults, ret, error >>

\* Timestamp(...) of _result_to_assembly_step raises: the exception leaves
\* _result_to_assembly_step and extract_steps_from_video.
ConvertRaises ==
    /\ pc = "convert"
    /\ ri <= Len(results)
    /\ TimestampRaises(results[ri])
    /\ Raise(Error("ValidationError"))
    /\ UNCHANGED << argVars, persistVars, service_indexes, searches, index_id, metadata, uploadVars, extractVars, calls, faults >>

\* AssemblyStep(...) raises inside the try block: the method returns None
\* and the hit is skipped.
ConvertDrops ==
    /\ pc = "convert"
    /\ ri <= Len(results)
    /\ ~TimestampRaises(results[ri])
    /\ ~AssemblyStepValid(results[ri])
    /\ dropped' = dropped + 1
    /\ ri' = ri + 1
    /\ UNCHANGED << argVars, persistVars, service_indexes, searches, index_id, metadata, uploadVars, queries, qi, page_limit,
                    transport, results, all_steps, remaining, calls, faults, pc,
                    ret, error >>

\* The append skipping a step whose component, action and timestamp are
\* already in all_steps.
ConvertAppendsDeduplicates ==
    /\ pc = "convert"
    /\ ri <= Len(results)
    /\ ~TimestampRaises(results[ri])
    /\ AssemblyStepValid(results[ri])
    /\ LET step == _result_to_assembly_step(results[ri], metadata,
                       queries[qi].component, queries[qi].action)
       IN  all_steps' =
               IF \E k \in DOMAIN all_steps :
                      /\ all_steps[k].component = step.component
                      /\ all_steps[k].action = step.action
                      /\ all_steps[k].timestamp = step.timestamp
               THEN all_steps
               ELSE Append(all_steps, [ step EXCEPT !.src = << qi, ri >> ])
    /\ ri' = ri + 1
    /\ UNCHANGED << argVars, persistVars, service_indexes, searches, index_id, metadata, uploadVars, queries, qi, page_limit,
                    transport, results, remaining, dropped, calls, faults, pc,
                    ret, error >>

\* if step: all_steps.append(step)
ConvertAppends ==
    /\ pc = "convert"
    /\ ri <= Len(results)
    /\ ~TimestampRaises(results[ri])
    /\ AssemblyStepValid(results[ri])
    /\ LET step == _result_to_assembly_step(results[ri], metadata,
                       queries[qi].component, queries[qi].action)
       IN  all_steps' = Append(all_steps, [ step EXCEPT !.src = << qi, ri >> ])
    /\ ri' = ri + 1
    /\ UNCHANGED << argVars, persistVars, service_indexes, searches, index_id, metadata, uploadVars, queries, qi, page_limit,
                    transport, results, remaining, dropped, calls, faults, pc,
                    ret, error >>

\* The loop over the queries ending one query early.
NextQueryStopsEarly ==
    /\ pc = "convert"
    /\ ri > Len(results)
    /\ qi' = qi + 1
    /\ pc' = IF qi + 1 >= Len(queries) THEN "sort" ELSE "search"
    /\ UNCHANGED << argVars, persistVars, service_indexes, searches, index_id, metadata,
                    uploadVars, queries, page_limit, transport, results, ri, all_steps,
                    remaining, dropped, calls, faults, ret, error >>

\* The hits of queries[qi] are exhausted: the for loop takes the next query,
\* or ends.
NextQuery ==
    /\ pc = "convert"
    /\ ri > Len(results)
    /\ qi' = qi + 1
    /\ pc' = IF qi + 1 > Len(queries) THEN "sort" ELSE "search"
    /\ UNCHANGED << argVars, persistVars, service_indexes, searches, index_id, metadata, uploadVars, queries, page_limit,
                    transport, results, ri, all_steps, remaining, dropped, calls,
                    faults, ret, error >>

\* all_steps.sort(...); step_order = idx + 1; return all_steps
SortAndAssign ==
    /\ pc = "sort"
    /\ all_steps' = AssignStepOrder(SortByStart(all_steps))
    /\ IF entry = "extract_steps_from_video"
       THEN pc' = "done" /\ ret' = [ kind |-> "steps", val |-> all_steps' ]
       ELSE pc' = "assemble" /\ ret' = ret
    /\ UNCHANGED << argVars, persistVars, service_indexes, searches, index_id, metadata, uploadVars, queries, qi, page_limit,
                    transport, results, ri, remaining, dropped, calls, faults, error >>

\* ------------------------------------------- TwelveLabsClient.upload_video
\* The test of the index id made after the download.
UploadNoIndexAfterDownload ==
    /\ pc = "upload_start"
    /\ index_id = None
    /\ cache' = cache \cup { [ name |-> source.id \o << ".mp4" >>, size |-> 1 ] }
    /\ calls' = calls \o << Call("extract_info", "ok"), Call("download", "ok") >>
    /\ Raise(Error("ValueError: index id not set"))
    /\ UNCHANGED << argVars, persistVars, service_indexes, searches, index_id, metadata,
                    video_file_path, task, status, video_id, extractVars, faults >>

\* if not self.index_id: raise ValueError(...)
UploadNoIndex ==
    /\ pc = "upload_start"
    /\ index_id = None
    /\ Raise(Error("ValueError: index id not set"))
    /\ UNCHANGED << argVars, persistVars, service_indexes, searches, index_id, metadata, uploadVars, extractVars, calls, faults >>

\* _download_video: ydl.extract_info(video_url, download=False) raises.
DownloadInfoRaises ==
    /\ pc = "upload_start"
    /\ index_id # None
    /\ calls' = Append(calls, Call("extract_info", "raise"))
    /\ faults' = faults + 1
    /\ Raise(Error("DownloadError"))
    /\ UNCHANGED << argVars, persistVars, service_indexes, searches, index_id, metadata, uploadVars, extractVars >>

\* _download_video: a file of videos/ starts with the video id; the first
\* one os.listdir names is returned, whatever its size.
DownloadUsesCache ==
    /\ pc = "upload_start"
    /\ index_id # None
    /\ \E f \in CachedFiles(cache, source.id) : video_file_path' = f
    /\ calls' = Append(calls, Call("extract_info", "ok"))
    /\ pc' = "create_task"
    /\ UNCHANGED << argVars, persistVars, service_indexes, searches, index_id, metadata, cache, task, status, video_id,
                    extractVars, faults, ret, error >>

\* _download_video: nothing cached; yt-dlp downloads to videos/<id>.<ext>.
DownloadFetches ==
    /\ pc = "upload_start"
    /\ index_id # None
    /\ CachedFiles(cache, source.id) = {}
    /\ LET video_file == [ name |-> source.id \o << ".mp4" >>, size |-> 1 ]
       IN  /\ cache' = cache \cup { video_file }
           /\ video_file_path' = video_file
    /\ calls' = calls \o << Call("extract_info", "ok"), Call("download", "ok") >>
    /\ pc' = "create_task"
    /\ UNCHANGED << argVars, persistVars, service_indexes, searches, index_id, metadata, task, status, video_id,
                    extractVars, faults, ret, error >>

\* _download_video: the download raises; yt-dlp may leave a partial file.
DownloadRaises ==
    /\ pc = "upload_start"
    /\ index_id # None
    /\ CachedFiles(cache, source.id) = {}
    /\ \E partial \in BOOLEAN :
          cache' = IF partial
                   THEN cache \cup { [ name |-> source.id \o << ".mp4.part" >>, size |-> 0 ] }
                   ELSE cache
    /\ calls' = calls \o << Call("extract_info", "ok"), Call("download", "raise") >>
    /\ faults' = faults + 1
    /\ Raise(Error("DownloadError"))
    /\ UNCHANGED << argVars, persistVars, service_indexes, searches, index_id, metadata, video_file_path, task, status,
                    video_id, extractVars >>

\* self.client.tasks.create(index_id=..., video_file=...) raises.
CreateTaskRaises ==
    /\ pc = "create_task"
    /\ calls' = Append(calls, Call("tasks.create", "raise"))
    /\ faults' = faults + 1
    /\ Raise(Error("ServiceError"))
    /\ UNCHANGED << argVars, persistVars, service_indexes, searches, index_id, metadata, uploadVars, extractVars >>

\* The task created and polled whatever wait_for_completion says.
CreateTaskAlwaysWaits ==
    /\ pc = "create_task"
    /\ calls' = Append(calls, Call("tasks.create", "ok"))
    /\ task' = "task1"
    /\ pc' = "poll_task"
    /\ UNCHANGED << argVars, persistVars, service_indexes, searches, index_id, metadata,
                    cache, video_file_path, status, video_id, extractVars, faults, ret,
                    error >>

\* task = self.client.tasks.create(...); without wait_for_completion the
\* method returns task.id.
CreateTask ==
    /\ pc = "create_task"
    /\ calls' = Append(calls, Call("tasks.create", "ok"))
    /\ task' = "task1"
    /\ IF wait_for_completion
       THEN pc' = "poll_task" /\ ret' = ret
       ELSE pc' = "done" /\ ret' = [ kind |-> "id", val |-> task' ]
    /\ UNCHANGED << argVars, persistVars, service_indexes, searches, index_id, metadata, cache, video_file_path, status,
                    video_id, extractVars, faults, error >>

\* Polls so far that found the task or the video still in progress.
InProgressPolls ==
    Cardinality({ i \in DOMAIN calls : calls[i].obs \in { "indexing", "not indexed" } })

\* self.client.tasks.retrieve(task.id) raises: printed and re-raised.
PollTaskRaises ==
    /\ pc = "poll_task"
    /\ calls' = Append(calls, Call("tasks.retrieve", "raise"))
    /\ faults' = faults + 1
    /\ Raise(Error("ServiceError"))
    /\ UNCHANGED << argVars, persistVars, service_indexes, searches, index_id, metadata, uploadVars, extractVars >>

\* The status is neither ready nor failed nor error: time.sleep(5), again.
PollTaskInProgress ==
    /\ pc = "poll_task"
    /\ InProgressPolls < MaxPolls
    /\ status' = [ status |-> "indexing", video_id |-> None, metadata |-> None ]
    /\ calls' = Append(calls, Call("tasks.retrieve", "indexing"))
    /\ UNCHANGED << argVars, persistVars, service_indexes, searches, index_id, metadata, cache, video_file_path, task,
                    video_id, extractVars, faults, pc, ret, error >>

\* The method returning as soon as the task is ready.
PollTaskReadyReturns(VideoIds) ==
    /\ pc = "poll_task"
    /\ \E id \in VideoIds :
          status' = [ status |-> "ready", video_id |-> id, metadata |-> None ]
    /\ video_id' = status'.video_id
    /\ calls' = Append(calls, Call("tasks.retrieve", "ready"))
    /\ pc' = "done"
    /\ ret' = [ kind |-> "id", val |-> video_id' ]
    /\ UNCHANGED << argVars, persistVars, service_indexes, searches, index_id, metadata, cache, video_file_path, task,
                    extractVars, faults, error >>

\* status.status == "ready": video_id = status.video_id, and the second loop.
PollTaskReady(VideoIds) ==
    /\ pc = "poll_task"
    /\ \E id \in VideoIds :
          status' = [ status |-> "ready", video_id |-> id, metadata |-> None ]
    /\ video_id' = status'.video_id
    /\ calls' = Append(calls, Call("tasks.retrieve", "ready"))
    /\ pc' = "poll_video"
    /\ UNCHANGED << argVars, persistVars, service_indexes, searches, index_id, metadata, cache, video_file_path, task,
                    extractVars, faults, ret, error >>

\* A failed task polled again like one in progress.
PollTaskFailedRetries ==
    /\ pc = "poll_task"
    /\ InProgressPolls < MaxPolls
    /\ \E st \in { "failed", "error" }, diagnostic \in { None, "diagnostic" } :
          /\ status' = [ status |-> st, video_id |-> None, metadata |-> diagnostic ]
          /\ calls' = Append(calls, Call("tasks.retrieve", st))
    /\ UNCHANGED << argVars, persistVars, service_indexes, searches, index_id, metadata, cache, video_file_path, task,
                    video_id, extractVars, faults, pc, ret, error >>

\* status.status in ["failed", "error"]: raise Exception(error_msg).
PollTaskFailed ==
    /\ pc = "poll_task"
    /\ \E st \in { "failed", "error" }, diagnostic \in { None, "diagnostic" } :
          /\ status' = [ status |-> st, video_id |-> None, metadata |-> diagnostic ]
          /\ calls' = Append(calls, Call("tasks.retrieve", st))
    /\ Raise(UploadFailedError(status'))
    /\ UNCHANGED << argVars, persistVars, service_indexes, searches, index_id, metadata, cache, video_file_path, task,
                    video_id, extractVars, faults >>

\* self.client.indexes.videos.retrieve(...) raises.
PollVideoRaises ==
    /\ pc = "poll_video"
    /\ calls' = Append(calls, Call("videos.retrieve", "raise"))
    /\ faults' = faults + 1
    /\ Raise(Error("ServiceError"))
    /\ UNCHANGED << argVars, persistVars, service_indexes, searches, index_id, metadata, uploadVars, extractVars >>

\* A video not yet indexed sending the method back to the task poll.
PollVideoNotIndexedRepolls ==
    /\ pc = "poll_video"
    /\ InProgressPolls < MaxPolls
    /\ calls' = Append(calls, Call("videos.retrieve", "not indexed"))
    /\ pc' = "poll_task"
    /\ UNCHANGED << argVars, persistVars, service_indexes, searches, index_id, metadata,
                    uploadVars, extractVars, faults, ret, error >>

\* video.indexed_at is None: time.sleep(30), again.
PollVideoNotIndexed ==
    /\ pc = "poll_video"
    /\ InProgressPolls < MaxPolls
    /\ calls' = Append(calls, Call("videos.retrieve", "not indexed"))
    /\ UNCHANGED << argVars, persistVars, service_indexes, searches, index_id, metadata, uploadVars, extractVars, faults,
                    pc, ret, error >>

\* The test of indexed_at inverted: an indexed video is waited for again.
PollVideoIndexedWaits ==
    /\ pc = "poll_video"
    /\ calls' = IF InProgressPolls < MaxPolls
                THEN Append(calls, Call("videos.retrieve", "not indexed"))
                ELSE calls
    /\ UNCHANGED << argVars, persistVars, service_indexes, searches, index_id, metadata,
                    uploadVars, extractVars, faults, pc, ret, error >>

\* video.indexed_at is not None: return video_id.
PollVideoIndexed ==
    /\ pc = "poll_video"
    /\ calls' = Append(calls, Call("videos.retrieve", "indexed"))
    /\ IF entry = "upload_video"
       THEN pc' = "done" /\ ret' = [ kind |-> "id", val |-> video_id ]
       ELSE pc' = "extract_start" /\ ret' = ret
    /\ UNCHANGED << argVars, persistVars, service_indexes, searches, index_id, metadata, uploadVars, extractVars, faults,
                    error >>

\* ------------------------------- concurrent calls of _download_video
\* Calls of upload_video for the same source video that run at the same
\* time, each followed through _download_video and tasks.create one file
\* system operation at a time; videos/ is the directory they share.
Runs == 1..MaxRuns

\* The file yt-dlp writes while it downloads, and the file it renames it
\* to when the download is complete. Both names start with the video id.
PartFile == [ name |-> source.id \o << ".mp4.part" >>, size |-> 0 ]

VideoFile == [ name |-> source.id \o << ".mp4" >>, size |-> 1 ]

raceIdle == << entry, twelve_labs_index_id, skip_validation, wait_for_completion, source,
              custom_queries, persistVars, service_indexes, searches, index_id, metadata,
              video_file_path, task, status, video_id, extractVars, calls, faults, pc,
              ret, error >>

\* The listing of a run that downloads although it found a cached file.
RaceListsAndDownloads ==
    /\ \E r \in Runs :
          /\ runs[r].pc = "list"
          /\ runs' = [ runs EXCEPT ![r].cached_files = CachedFiles(cache, source.id),
                                   ![r].pc = "download" ]
    /\ UNCHANGED << raceIdle, cache >>

\* cached_files = [f for f in os.listdir(videos_dir) if f.startswith(video_id)];
\* a run that finds one returns it, a run that finds none goes on to download.
RaceLists ==
    /\ \E r \in Runs :
          /\ runs[r].pc = "list"
          /\ LET cached_files == CachedFiles(cache, source.id)
             IN  IF cached_files # {}
                 THEN \E f \in cached_files :
                         runs' = [ runs EXCEPT ![r].cached_files = cached_files,
                                               ![r].video_file_path = f,
                                               ![r].pc = "create_task" ]
                 ELSE runs' = [ runs EXCEPT ![r].cached_files = cached_files,
                                            ![r].pc = "download" ]
    /\ UNCHANGED << raceIdle, cache >>

\* ydl.extract_info(video_url, download=True) starts to write the video.
RaceDownloadBegins ==
    /\ \E r \in Runs :
          /\ runs[r].pc = "download"
          /\ runs' = [ runs EXCEPT ![r].pc = "downloading" ]
    /\ cache' = cache \cup { PartFile }
    /\ UNCHANGED raceIdle

\* The download is complete: the file has its final name, and
\* os.path.exists(video_file) holds.
RaceDownloadEnds ==
    /\ \E r \in Runs :
          /\ runs[r].pc = "downloading"
          /\ runs' = [ runs EXCEPT ![r].video_file_path = VideoFile,
                                   ![r].pc = "create_task" ]
    /\ cache' = (cache \ { PartFile }) \cup { VideoFile }
    /\ UNCHANGED raceIdle

\* os.path.getsize(video_file_path) and open(video_file_path, 'rb') raise
\* when the file has been renamed meanwhile; otherwise tasks.create uploads
\* the file as it is at that moment.
RaceCreateTask ==
    /\ \E r \in Runs :
          /\ runs[r].pc = "create_task"
          /\ IF runs[r].video_file_path \in cache
             THEN runs' = [ runs EXCEPT ![r].uploaded = runs[r].video_file_path,
                                        ![r].writers = { q \in Runs : runs[q].pc = "downloading" },
                                        ![r].pc = "done" ]
             ELSE runs' = [ runs EXCEPT ![r].pc = "raised" ]
    /\ UNCHANGED << raceIdle, cache >>

\* ------------------------------------------ PCBuildVideoPipeline.__init__
\* not twelve_labs_index_id: None and the empty string.
IndexIdSupplied == twelve_labs_index_id \notin { None, "" }

\* The constructor creating an index whatever id it was given.
PipelineInitSuppliedCreates ==
    /\ pc = "construct"
    /\ IndexIdSupplied
    /\ LET index == [ id |-> NewIndexId, name |-> "pc_building_videos" ]
       IN  /\ service_indexes' = Append(service_indexes, index)
           /\ index_id' = index.id
    /\ calls' = Append(calls, Call("indexes.create", "ok"))
    /\ pc' = "process_start"
    /\ UNCHANGED << argVars, persistVars, searches, metadata, uploadVars, extractVars,
                    faults, ret, error >>

\* TwelveLabsClient(api_key, index_id=twelve_labs_index_id) with an id: the
\* test of line 48 fails and no index is created.
PipelineInitSupplied ==
    /\ pc = "construct"
    /\ IndexIdSupplied
    /\ index_id' = twelve_labs_index_id
    /\ pc' = "process_start"
    /\ UNCHANGED << argVars, persistVars, service_indexes, searches, metadata,
                    uploadVars, extractVars, calls, faults, ret, error >>

\* if not twelve_labs_index_id: self.twelve_labs_client.create_index(), which
\* stores the id of the index the service creates.
PipelineInitCreates ==
    /\ pc = "construct"
    /\ ~IndexIdSupplied
    /\ LET index == [ id |-> NewIndexId, name |-> "pc_building_videos" ]
       IN  /\ service_indexes' = Append(service_indexes, index)
           /\ index_id' = index.id
    /\ calls' = Append(calls, Call("indexes.create", "ok"))
    /\ pc' = "process_start"
    /\ UNCHANGED << argVars, persistVars, searches, metadata, uploadVars, extractVars,
                    faults, ret, error >>

\* create_index raises: the exception leaves the constructor.
PipelineInitCreateRaises ==
    /\ pc = "construct"
    /\ ~IndexIdSupplied
    /\ index_id' = twelve_labs_index_id
    /\ calls' = Append(calls, Call("indexes.create", "raise"))
    /\ faults' = faults + 1
    /\ Raise(Error("ServiceError"))
    /\ UNCHANGED << argVars, persistVars, service_indexes, searches, metadata,
                    uploadVars, extractVars >>

\* ------------------------------------- PCBuildVideoPipeline.process_video
\* extract_metadata: fetch_metadata raises.
ExtractMetadataRaises ==
    /\ pc = "process_start"
    /\ calls' = Append(calls, Call("fetch_metadata", "raise"))
    /\ faults' = faults + 1
    /\ Raise(Error("DownloadError"))
    /\ UNCHANGED << argVars, persistVars, service_indexes, searches, index_id, metadata, uploadVars, extractVars >>

\* extract_metadata: extract_video_id matches no pattern in the URL.
ExtractMetadataBadUrl ==
    /\ pc = "process_start"
    /\ ~source.url_ok
    /\ calls' = Append(calls, Call("fetch_metadata", "ok"))
    /\ Raise(Error("ValueError: no video id in URL"))
    /\ UNCHANGED << argVars, persistVars, service_indexes, searches, index_id, metadata, uploadVars, extractVars, faults >>

\* metadata = self.metadata_extractor.extract_metadata(video_url)
ExtractMetadataReturns ==
    /\ pc = "process_start"
    /\ source.url_ok
    /\ calls' = Append(calls, Call("fetch_metadata", "ok"))
    /\ metadata' = VideoMetadata(source)
    /\ IF entry = "extract_metadata"
       THEN pc' = "done" /\ ret' = [ kind |-> "metadata", val |-> metadata' ]
       ELSE pc' = "validate" /\ ret' = ret
    /\ UNCHANGED << argVars, persistVars, service_indexes, searches, index_id,
                    uploadVars, extractVars, faults, error >>

\* A caller invokes validate_video_content(metadata).
ValidateVideoContent ==
    /\ pc = "validate_content"
    /\ ret' = [ kind |-> "bool", val |-> validate_video_content(metadata) ]
    /\ pc' = "done"
    /\ UNCHANGED << argVars, persistVars, service_indexes, searches, index_id, metadata,
                    uploadVars, extractVars, calls, faults, error >>

GateConsultedAlways(skip, md) == ~validate_video_content(md)

\* if not skip_validation: if not validate_video_content(metadata): raise
GateRejects(skip, md) == ~skip /\ ~validate_video_content(md)

ValidateRejects ==
    /\ pc = "validate"
    /\ GateRejects(skip_validation, metadata)
    /\ Raise(Error("ValueError: not a PC building tutorial"))
    /\ UNCHANGED << argVars, persistVars, service_indexes, searches, index_id, metadata, uploadVars, extractVars, calls, faults >>

\* The gate accepts or is skipped: upload_video(video_url, metadata, True).
ValidatePasses ==
    /\ pc = "validate"
    /\ ~GateRejects(skip_validation, metadata)
    /\ pc' = "upload_start"
    /\ UNCHANGED << argVars, persistVars, service_indexes, searches, index_id, metadata, uploadVars, extractVars, calls,
                    faults, ret, error >>

\* result = ProcessedVideo(...); return result
Assemble ==
    /\ pc = "assemble"
    /\ ret' = [ kind |-> "video", val |-> ProcessedVideo(metadata, all_steps, video_id) ]
    /\ pc' = "done"
    /\ UNCHANGED << argVars, persistVars, service_indexes, searches, index_id, metadata, uploadVars, extractVars, calls,
                    faults, error >>

\* ------------------------- PCBuildVideoPipeline.save_results / load_results
\* json.dump(result.model_dump(), f, indent=..., ensure_ascii=False)
SaveResults ==
    /\ pc = "save_results"
    /\ output_file' = json_dump(model_dump(processed))
    /\ pc' = "load_results"
    /\ UNCHANGED << argVars, processed, service_indexes, searches, index_id, metadata,
                    uploadVars, extractVars, calls, faults, ret, error >>

\* data = json.load(f); ProcessedVideo(**data) raises ValidationError.
LoadResultsRaises ==
    /\ pc = "load_results"
    /\ ValidationFails(ProcessedVideoFromData(json_load(output_file)))
    /\ Raise(Error("ValidationError"))
    /\ UNCHANGED << argVars, persistVars, service_indexes, searches, index_id, metadata,
                    uploadVars, extractVars, calls, faults >>

\* data = json.load(f); return ProcessedVideo(**data)
LoadResults ==
    /\ pc = "load_results"
    /\ LET loaded == ProcessedVideoFromData(json_load(output_file))
       IN  /\ ~ValidationFails(loaded)
           /\ ret' = [ kind |-> "loaded", val |-> loaded ]
    /\ pc' = "done"
    /\ UNCHANGED << argVars, persistVars, service_indexes, searches, index_id, metadata,
                    uploadVars, extractVars, calls, faults, error >>

\* ------------------------------------------------- inputs of the checks
Starts == { Num(n) : n \in 0..MaxStart } \cup { NotANumber }

\* The clips the service yields to an extraction: every start value, with
\* visual evidence that validates or does not.
ExtractClips ==
    [ score : {55}, confidence : {"low"}, start : Starts, end : {Num(MaxStart)},
      has_text : {FALSE}, text : {{}}, text_len : {0}, visual_ok : BOOLEAN ]

\* The transcripts of the hits handed to one conversion: empty, short, of
\* exactly DescriptionLimit characters, and longer, with keywords before,
\* on and behind the limit.
Transcripts ==
    { Text(0, {}),
      Text(40, { [ kw |-> "gpu", last |-> 10 ], [ kw |-> "screw", last |-> 30 ] }),
      Text(DescriptionLimit, { [ kw |-> "cable", last |-> DescriptionLimit ] }),
      Text(DescriptionLimit + 1, { [ kw |-> "cable", last |-> DescriptionLimit + 1 ] }),
      Text(DescriptionLimit + 150, { [ kw |-> "ram", last |-> DescriptionLimit - 1 ],
                                     [ kw |-> "cpu", last |-> DescriptionLimit + 2 ],
                                     [ kw |-> "latch", last |-> DescriptionLimit + 100 ] }),
      Text(DescriptionLimit + 150, { [ kw |-> "installing", last |-> DescriptionLimit + 3 ],
                                     [ kw |-> "install", last |-> DescriptionLimit ],
                                     [ kw |-> "remove", last |-> 20 ] }) }

\* The hits handed to one conversion: every score and label, every start
\* and end value, with and without transcript.
ConvertHits ==
    [ score : 0..100, confidence : {"high", "medium", "low"}, start : Starts,
      end : Starts, has_text : {FALSE}, text : {{}}, text_len : {0},
      visual_ok : BOOLEAN ]
    \cup
    { [ score |-> sc, confidence |-> "low", start |-> Num(0), end |-> Num(MaxStart),
        has_text |-> TRUE, text |-> t.occ, text_len |-> t.len, visual_ok |-> TRUE ] :
      sc \in {55, 90}, t \in Transcripts }

SourceId == << "v", "1" >>

\* The video ids the service assigns.
ServiceVideoIds == { "tlv1", "tlv2" }

ExtractMetadata == VideoMetadata([ id |-> SourceId, text |-> {"build", "am5"} ])

CustomQueryLists ==
    { << >>,
      << SEMANTIC_QUERIES[1] >>,
      << SEMANTIC_QUERIES[9], SEMANTIC_QUERIES[1] >> }

\* ------------------------------------------------------------ initial states
\* Arguments and locals of the methods a call does not reach.
IdlePipeline ==
    /\ twelve_labs_index_id = None
    /\ skip_validation = FALSE
    /\ source = [ id |-> SourceId, text |-> {}, url_ok |-> TRUE ]

IdleUpload ==
    /\ wait_for_completion = TRUE
    /\ video_file_path = NoFile
    /\ task = None
    /\ status = NoStatus
    /\ video_id = None

IdleExtract ==
    /\ queries = << >>
    /\ qi = 0
    /\ page_limit = 0
    /\ transport = << >>
    /\ results = << >>
    /\ ri = 0
    /\ all_steps = << >>
    /\ dropped = 0

NothingYet ==
    /\ service_indexes = << >>
    /\ processed = NoProcessed
    /\ output_file = NoDocument
    /\ searches = << >>
    /\ calls = << >>
    /\ faults = 0
    /\ ret = NoReturn
    /\ error = NoError

\* A caller invokes search_semantic(query, video_id, page_limit).
InitSearch ==
    /\ cache = {}
    /\ entry = "search_semantic"
    /\ runs = NoRuns
    /\ pc = "search"
    /\ index_id \in { None, "idx1" }
    /\ metadata = NoMetadata
    /\ custom_queries = << >>
    /\ queries = << SEMANTIC_QUERIES[1] >>
    /\ qi = 1
    /\ page_limit \in 0..MaxLimit
    /\ transport = << >>
    /\ results = << >>
    /\ ri = 0
    /\ all_steps = << >>
    /\ dropped = 0
    /\ remaining = MaxTransport
    /\ IdlePipeline /\ IdleUpload /\ NothingYet

NextSearch ==
    \/ SearchSemanticNoIndex
    \/ SearchSemanticRaises
    \/ SearchSemanticReturns(ExtractClips)

SpecSearch == InitSearch /\ [][NextSearch]_vars

\* A caller invokes extract_steps_from_video(video_id, metadata, custom_queries).
InitExtract ==
    /\ cache = {}
    /\ entry = "extract_steps_from_video"
    /\ runs = NoRuns
    /\ pc = "extract_start"
    /\ index_id \in { None, "idx1" }
    /\ metadata = ExtractMetadata
    /\ custom_queries \in CustomQueryLists
    /\ remaining = IF custom_queries = << >> THEN MaxClipsDefault ELSE MaxClips
    /\ wait_for_completion = TRUE
    /\ video_file_path = NoFile
    /\ task = None
    /\ status = NoStatus
    /\ video_id \in ServiceVideoIds
    /\ IdlePipeline /\ IdleExtract /\ NothingYet

NextExtract ==
    \/ ExtractStart
    \/ SearchSemanticNoIndex
    \/ SearchSemanticRaises
    \/ SearchSemanticReturns(ExtractClips)
    \/ ConvertRaises
    \/ ConvertDrops
    \/ ConvertAppends
    \/ NextQuery
    \/ SortAndAssign

SpecExtract == InitExtract /\ [][NextExtract]_vars

\* The metadata a caller hands over: as extract_metadata builds it, with
\* and without platform, and with a form factor the caller has set.
ConvertMetadata ==
    { ExtractMetadata,
      VideoMetadata([ id |-> SourceId, text |-> {"build"} ]),
      [ VideoMetadata([ id |-> SourceId, text |-> {"build"} ]) EXCEPT !.form_factor = "ITX" ] }

\* Queries that set both expectations, one of them, or neither.
ConvertQueries ==
    { SEMANTIC_QUERIES[1], SEMANTIC_QUERIES[8], SEMANTIC_QUERIES[9],
      SemanticQuery("Find the cable routing", "Cables", None) }

\* extract_steps_from_video has received one hit for its only query and
\* hands it to _result_to_assembly_step.
InitConvert ==
    /\ IdlePipeline
    /\ wait_for_completion = TRUE
    /\ video_file_path = NoFile
    /\ task = None
    /\ status = NoStatus
    /\ video_id = "tlv1"
    /\ cache = {}
    /\ entry = "extract_steps_from_video"
    /\ runs = NoRuns
    /\ pc = "convert"
    /\ index_id = "idx1"
    /\ metadata \in ConvertMetadata
    /\ custom_queries \in { << q >> : q \in ConvertQueries }
    /\ queries = custom_queries
    /\ qi = 1
    /\ page_limit = ExtractPageLimit
    /\ \E h \in ConvertHits : transport = << h >> /\ results = << h >>
    /\ ri = 1
    /\ all_steps = << >>
    /\ dropped = 0
    /\ remaining = 0
    /\ service_indexes = << >>
    /\ processed = NoProcessed
    /\ output_file = NoDocument
    /\ searches = << SearchParams(queries[1], video_id, page_limit) >>
    /\ calls = << Call("search.query", "ok") >>
    /\ faults = 0
    /\ ret = NoReturn
    /\ error = NoError

NextConvert ==
    \/ ConvertRaises
    \/ ConvertDrops
    \/ ConvertAppends
    \/ NextQuery
    \/ SortAndAssign

SpecConvert == InitConvert /\ [][NextConvert]_vars


\* A caller invokes upload_video(video_url, metadata, wait_for_completion).
CacheStates ==
    { {},
      { [ name |-> SourceId \o << ".mp4" >>, size |-> 1 ] },
      { [ name |-> SourceId \o << ".mp4.part" >>, size |-> 0 ] },
      { [ name |-> SourceId \o << "2", ".mp4" >>, size |-> 1 ] } }

InitUpload ==
    /\ entry = "upload_video"
    /\ runs = NoRuns
    /\ pc = "upload_start"
    /\ index_id \in { None, "idx1" }
    /\ metadata = ExtractMetadata
    /\ wait_for_completion \in BOOLEAN
    /\ cache \in CacheStates
    /\ video_file_path = NoFile
    /\ task = None
    /\ status = NoStatus
    /\ video_id = None
    /\ custom_queries = << >>
    /\ remaining = 0
    /\ IdlePipeline /\ IdleExtract /\ NothingYet

NextUpload ==
    \/ UploadNoIndex
    \/ DownloadInfoRaises
    \/ DownloadUsesCache
    \/ DownloadFetches
    \/ DownloadRaises
    \/ CreateTaskRaises
    \/ CreateTask
    \/ PollTaskRaises
    \/ PollTaskInProgress
    \/ PollTaskReady(ServiceVideoIds)
    \/ PollTaskFailed
    \/ PollVideoRaises
    \/ PollVideoNotIndexed
    \/ PollVideoIndexed

SpecUpload == InitUpload /\ [][NextUpload]_vars

\* A caller invokes upload_video or search_semantic on a client.
InitClient == InitUpload \/ InitSearch

NextClient ==
    \/ UploadNoIndex
    \/ DownloadInfoRaises
    \/ DownloadUsesCache
    \/ DownloadFetches
    \/ DownloadRaises
    \/ CreateTaskRaises
    \/ CreateTask
    \/ PollTaskRaises
    \/ PollTaskInProgress
    \/ PollTaskReady(ServiceVideoIds)
    \/ PollTaskFailed
    \/ PollVideoRaises
    \/ PollVideoNotIndexed
    \/ PollVideoIndexed
    \/ SearchSemanticNoIndex
    \/ SearchSemanticRaises
    \/ SearchSemanticReturns(ExtractClips)

SpecClient == InitClient /\ [][NextClient]_vars

\* MaxRuns callers invoke upload_video for the same video at the same time,
\* on an empty videos/ directory.
InitRace ==
    /\ entry = "upload_video"
    /\ pc = "concurrent"
    /\ index_id = "idx1"
    /\ metadata = ExtractMetadata
    /\ cache = {}
    /\ runs = [ r \in Runs |-> [ pc |-> "list", cached_files |-> {},
                                 video_file_path |-> NoFile, uploaded |-> NoFile,
                                 writers |-> {} ] ]
    /\ custom_queries = << >>
    /\ remaining = 0
    /\ skip_validation = FALSE
    /\ twelve_labs_index_id = None
    /\ source = [ id |-> SourceId, text |-> {}, url_ok |-> TRUE ]
    /\ IdleUpload /\ IdleExtract /\ NothingYet

NextRace ==
    \/ RaceLists
    \/ RaceDownloadBegins
    \/ RaceDownloadEnds
    \/ RaceCreateTask

SpecRace == InitRace /\ [][NextRace]_vars

\* upload_video runs on a service that answers: a download and a task
\* creation that do not raise end, the service at some time reports the
\* task ready and, after that, the video indexed. Nothing is assumed of
\* the polls that find the task or the video in progress, nor of the calls
\* that raise: a run that polls for ever is the behaviour that stays in
\* poll_task or poll_video for ever.
UploadFairness ==
    /\ WF_vars(DownloadUsesCache \/ DownloadFetches)
    /\ WF_vars(CreateTask)
    /\ WF_vars(PollTaskReady(ServiceVideoIds))
    /\ WF_vars(PollVideoIndexed)

SpecUploadLive == InitUpload /\ [][NextUpload]_vars /\ UploadFairness

\* Valid models, as their constructors leave them. VideoMetadata keeps
\* enumeration members; AssemblyStep (use_enum_values) keeps the value of a
\* member that was passed and the member itself where the default applied.
SavedMetadata ==
    { [ video_id |-> PyStr("v1"), title |-> PyStr("Building AM5 Ryzen 9000 PC"),
        channel_name |-> PyStr("channel"), url |-> PyStr("https://youtu.be/v1"),
        video_type |-> PyEnum("VideoType", "full_build"),
        skill_level |-> PyEnum("SkillLevel", "beginner"),
        platform |-> platform, form_factor |-> PyNone,
        duration_seconds |-> duration, upload_date |-> PyNone,
        description |-> description ] :
      platform \in { PyNone, PyEnum("Platform", "AM5") },
      duration \in { PyNone, PyFloat(213) },
      description \in { PyNone, PyStr("") } }

SavedSteps ==
    { [ fields |-> [ component |-> PyStr("CPU"), action |-> PyStr("insert"),
                     platform |-> platform, form_factor |-> PyStr("unknown"),
                     step_order |-> step_order, description |-> PyStr("Assembly step for CPU"),
                     visual_cues |-> PyList(cues), common_errors |-> PyList(<< >>),
                     video_id |-> PyStr("v1"),
                     source_confidence |-> PyStr("inferred") ],
        timestamp |-> [ start |-> PyFloat(0), end |-> PyFloat(MaxStart) ] ] :
      platform \in { PyStr("AM5"), PyEnum("Platform", "unknown") },
      step_order \in { PyNone, PyInt(1) },
      cues \in { << "latch closed" >> } }

SavedVideos ==
    { [ metadata |-> md, assembly_steps |-> steps,
        fields |-> [ twelve_labs_video_id |-> id, processing_timestamp |-> at,
                     total_steps_extracted |-> PyInt(total) ] ] :
      md \in SavedMetadata, steps \in SeqsUpTo(SavedSteps, MaxSaved),
      id \in { PyNone, PyStr("tlv1") },
      at \in { PyNone, PyStr("2025-01-01T12:00:00.000000") },
      total \in { 0, MaxSaved } }

\* Documents that save_results did not write: a platform that is no member
\* of the enumeration, and a null title.
ForeignDocuments ==
    { json_dump(model_dump(
          [ x EXCEPT !.metadata = [ x.metadata EXCEPT ![f] = v ] ])) :
      x \in { y \in SavedVideos : y.assembly_steps = << >> },
      f \in { "platform" }, v \in { PyStr("AM9") } }
    \cup
    { json_dump(model_dump(
          [ x EXCEPT !.metadata = [ x.metadata EXCEPT !.title = PyNone ] ])) :
      x \in { y \in SavedVideos : y.assembly_steps = << >> } }

\* A caller invokes save_results(result, output_path) and then
\* load_results(output_path), or load_results on a file of another origin.
InitPersist ==
    /\ entry \in { "save_results", "load_results" }
    /\ runs = NoRuns
    /\ pc = entry
    /\ IF entry = "save_results"
       THEN processed \in SavedVideos /\ output_file = NoDocument
       ELSE processed = NoProcessed /\ output_file \in ForeignDocuments
    /\ index_id = "idx1"
    /\ service_indexes = << >>
    /\ searches = << >>
    /\ calls = << >>
    /\ faults = 0
    /\ ret = NoReturn
    /\ error = NoError
    /\ metadata = NoMetadata
    /\ custom_queries = << >>
    /\ remaining = 0
    /\ cache = {}
    /\ IdlePipeline /\ IdleUpload /\ IdleExtract

NextPersist ==
    \/ SaveResults
    \/ LoadResultsRaises
    \/ LoadResults

SpecPersist == InitPersist /\ [][NextPersist]_vars

\* A client built with or without an index id; callers invoke create_index
\* on it, one call after the other.
IndexNames == { "pc_building_videos", "pc_build_clips" }

InitIndex ==
    /\ entry = "create_index"
    /\ runs = NoRuns
    /\ pc = "ready"
    /\ index_id \in { None, "idx1" }
    /\ service_indexes = IF index_id = None THEN << >>
                         ELSE << [ id |-> "idx1", name |-> "earlier_index" ] >>
    /\ processed = NoProcessed
    /\ output_file = NoDocument
    /\ searches = << >>
    /\ calls = << >>
    /\ faults = 0
    /\ ret = NoReturn
    /\ error = NoError
    /\ metadata = NoMetadata
    /\ custom_queries = << >>
    /\ remaining = 0
    /\ cache = {}
    /\ IdlePipeline /\ IdleUpload /\ IdleExtract

NextIndex ==
    \/ CreateIndexReturns(IndexNames)
    \/ CreateIndexRaises

SpecIndex == InitIndex /\ [][NextIndex]_vars

\* The keywords of the titles and descriptions handed to extract_metadata
\* and to validate_video_content.
PlatformTexts ==
    SUBSET { "am5", "ryzen 9000", "am4", "ryzen 3000", "lga1700", "13th gen",
             "lga1200", "11th gen", "build" }

ContentTexts ==
    SUBSET { "roast", "unboxing only", "worst builds ever", "pc", "build",
             "how to", "am5" }

\* A caller invokes extract_metadata(video_url), or
\* validate_video_content(metadata) on a metadata object.
InitMetadata ==
    /\ entry \in { "extract_metadata", "validate_video_content" }
    /\ runs = NoRuns
    /\ pc = IF entry = "extract_metadata" THEN "process_start" ELSE "validate_content"
    /\ index_id = None
    /\ twelve_labs_index_id = None
    /\ skip_validation = FALSE
    /\ IF entry = "extract_metadata"
       THEN /\ source \in [ id : { SourceId }, text : PlatformTexts, url_ok : BOOLEAN ]
            /\ metadata = NoMetadata
       ELSE /\ source = [ id |-> SourceId, text |-> {}, url_ok |-> TRUE ]
            /\ metadata \in { VideoMetadata([ id |-> SourceId, text |-> t ]) : t \in ContentTexts }
    /\ custom_queries = << >>
    /\ remaining = 0
    /\ cache = {}
    /\ IdleUpload /\ IdleExtract /\ NothingYet

NextMetadata ==
    \/ ExtractMetadataRaises
    \/ ExtractMetadataBadUrl
    \/ ExtractMetadataReturns
    \/ ValidateVideoContent

SpecMetadata == InitMetadata /\ [][NextMetadata]_vars

\* A caller invokes process_video(video_url, skip_validation) on a pipeline
\* whose constructor has set the client's index id.
SourceTexts ==
    { {}, { "build" }, { "build", "roast" }, { "pc", "am5" }, { "build", "mini-itx" } }

Init ==
    /\ entry = "process_video"
    /\ runs = NoRuns
    /\ pc = "process_start"
    /\ index_id = "idx1"
    /\ twelve_labs_index_id = "idx1"
    /\ skip_validation \in BOOLEAN
    /\ source \in [ id : { SourceId }, text : SourceTexts, url_ok : BOOLEAN ]
    /\ metadata = NoMetadata
    /\ custom_queries = << >>
    /\ remaining = MaxClipsDefault
    /\ cache \in { {}, { [ name |-> SourceId \o << ".mp4" >>, size |-> 1 ] } }
    /\ IdleUpload /\ IdleExtract /\ NothingYet

Next ==
    \/ ExtractMetadataRaises
    \/ ExtractMetadataBadUrl
    \/ ExtractMetadataReturns
    \/ ValidateRejects
    \/ ValidatePasses
    \/ DownloadInfoRaises
    \/ DownloadUsesCache
    \/ DownloadFetches
    \/ DownloadRaises
    \/ CreateTaskRaises
    \/ CreateTask
    \/ PollTaskRaises
    \/ PollTaskInProgress
    \/ PollTaskReady({ "tlv1" })
    \/ PollTaskFailed
    \/ PollVideoRaises
    \/ PollVideoNotIndexed
    \/ PollVideoIndexed
    \/ ExtractStart
    \/ SearchSemanticRaises
    \/ SearchSemanticReturns(ExtractClips)
    \/ ConvertRaises
    \/ ConvertDrops
    \/ ConvertAppends
    \/ NextQuery
    \/ SortAndAssign
    \/ Assemble

Spec == Init /\ [][Next]_vars

\* A caller builds a pipeline, with or without an index id, on a service
\* that holds no index or the index of an earlier pipeline, and invokes
\* process_video(video_url) on it.
PipelineIndexArgs ==
    { [ id |-> None, indexes |-> << >> ],
      [ id |-> None, indexes |-> << [ id |-> "idx1", name |-> "pc_building_videos" ] >> ],
      [ id |-> "", indexes |-> << >> ],
      [ id |-> "idx1", indexes |-> << [ id |-> "idx1", name |-> "pc_building_videos" ] >> ] }

InitPipeline ==
    /\ entry = "process_video"
    /\ runs = NoRuns
    /\ pc = "construct"
    /\ index_id = None
    /\ skip_validation = FALSE
    /\ source \in [ id : { SourceId }, text : { {}, { "build" } }, url_ok : BOOLEAN ]
    /\ metadata = NoMetadata
    /\ custom_queries = << >>
    /\ remaining = MaxClipsDefault
    /\ cache \in { {}, { [ name |-> SourceId \o << ".mp4" >>, size |-> 1 ] } }
    /\ processed = NoProcessed
    /\ output_file = NoDocument
    /\ searches = << >>
    /\ calls = << >>
    /\ faults = 0
    /\ ret = NoReturn
    /\ error = NoError
    /\ \E a \in PipelineIndexArgs :
          twelve_labs_index_id = a.id /\ service_indexes = a.indexes
    /\ IdleUpload /\ IdleExtract

NextPipeline ==
    \/ PipelineInitSupplied
    \/ PipelineInitCreates
    \/ PipelineInitCreateRaises
    \/ ExtractMetadataRaises
    \/ ExtractMetadataBadUrl
    \/ ExtractMetadataReturns
    \/ ValidateRejects
    \/ ValidatePasses
    \/ DownloadInfoRaises
    \/ DownloadUsesCache
    \/ DownloadFetches
    \/ DownloadRaises
    \/ CreateTaskRaises
    \/ CreateTask
    \/ PollTaskRaises
    \/ PollTaskInProgress
    \/ PollTaskReady({ "tlv1" })
    \/ PollTaskFailed
    \/ PollVideoRaises
    \/ PollVideoNotIndexed
    \/ PollVideoIndexed
    \/ ExtractStart
    \/ SearchSemanticRaises
    \/ SearchSemanticReturns(ExtractClips)
    \/ ConvertRaises
    \/ ConvertDrops
    \/ ConvertAppends
    \/ NextQuery
    \/ SortAndAssign
    \/ Assemble

SpecPipeline == InitPipeline /\ [][NextPipeline]_vars


\* ------------------------------------------------------------------ claims
\* a was produced before b: an earlier query, or an earlier hit of the same query.
ProducedBefore(a, b) ==
    a.src[1] < b.src[1] \/ (a.src[1] = b.src[1] /\ a.src[2] < b.src[2])

\* C1: in every list extract_steps_from_video returns, the step at position
\* i has step_order i (so the values are exactly 1..N) and timestamp.start
\* never decreases along the list.
C1_StepOrderDenseAndSorted ==
    ret.kind = "steps" =>
        /\ \A i \in DOMAIN ret.val : ret.val[i].step_order = i
        /\ { ret.val[i].step_order : i \in DOMAIN ret.val } = 1..Len(ret.val)
        /\ \A i, j \in DOMAIN ret.val :
              i < j => ret.val[i].timestamp.start <= ret.val[j].timestamp.start

\* A returned list of three steps whose hits arrived in another order than
\* their start times.
C1_Witness ==
    /\ ret.kind = "steps"
    /\ Len(ret.val) >= 3
    /\ \E i, j \in DOMAIN ret.val : i < j /\ ProducedBefore(ret.val[j], ret.val[i])

\* C2: two returned steps with equal timestamp.start stand in the order
\* they were produced: by query order, then by hit order within a query.
C2_SortIsStable ==
    ret.kind = "steps" =>
        \A i, j \in DOMAIN ret.val :
            (i < j /\ ret.val[i].timestamp.start = ret.val[j].timestamp.start)
                => ProducedBefore(ret.val[i], ret.val[j])

\* A returned list with two equal-start steps of different queries, placed
\* behind a step that was produced after both of them.
C2_Witness ==
    /\ ret.kind = "steps"
    /\ \E i, j, k \in DOMAIN ret.val :
          /\ k < i /\ i < j
          /\ ret.val[i].timestamp.start = ret.val[j].timestamp.start
          /\ ret.val[i].src[1] < ret.val[j].src[1]
          /\ ProducedBefore(ret.val[j], ret.val[k])

\* C3: every ProcessedVideo process_video returns has total_steps_extracted
\* equal to the length of assembly_steps.
C3_TotalEqualsLength ==
    ret.kind = "video" =>
        ret.val.total_steps_extracted = Len(ret.val.assembly_steps)

\* A returned ProcessedVideo that holds a step.
C3_Witness ==
    /\ ret.kind = "video"
    /\ Len(ret.val.assembly_steps) >= 1

\* C4: the source confidence of a step is decided by the label and the
\* score of its hit alone: explicitly_shown exactly for label high or a
\* score above 0.80, otherwise verbally_explained exactly for label medium
\* or a score above 0.60, otherwise inferred; a score of exactly 0.80 (0.60)
\* does not lift a hit into the tier.
C4_ConfidenceMapping ==
    \A i \in DOMAIN all_steps :
        LET h == results[all_steps[i].src[2]]
            c == all_steps[i].source_confidence
            shown == h.confidence = "high" \/ h.score >= 81
            explained == h.confidence = "medium" \/ h.score >= 61
        IN  /\ all_steps[i].src[1] = qi \/ qi = Len(queries) + 1
            /\ c = "explicitly_shown" <=> shown
            /\ c = "verbally_explained" <=> (~shown /\ explained)
            /\ c = "inferred" <=> (~shown /\ ~explained)
            /\ (h.confidence # "high" /\ h.score = 80) => c # "explicitly_shown"
            /\ h.score = 81 => c = "explicitly_shown"

\* A hit labelled low with score exactly 0.80 became a verbally_explained step.
C4_Witness ==
    /\ Len(all_steps) = 1
    /\ results[1].confidence = "low"
    /\ results[1].score = 80
    /\ all_steps[1].source_confidence = "verbally_explained"

\* C5: when upload_video with wait_for_completion returns, a task poll has
\* observed ready, a later video poll has observed the video indexed and is
\* the last call made, no poll after the ready one found the task in
\* progress, and the value returned is the video_id of the ready status.
C5_ReturnsAfterReadyAndIndexed ==
    (entry = "upload_video" /\ wait_for_completion /\ ret.kind = "id") =>
        /\ status.status = "ready"
        /\ ret.val = status.video_id
        /\ \E i, j \in DOMAIN calls :
              /\ i < j
              /\ calls[i] = Call("tasks.retrieve", "ready")
              /\ calls[j] = Call("videos.retrieve", "indexed")
              /\ j = Len(calls)
              /\ \A k \in DOMAIN calls : k > i => calls[k].op = "videos.retrieve"

\* upload_video returned after polls that found the task in progress and
\* the video not yet indexed.
C5_Witness ==
    /\ entry = "upload_video" /\ wait_for_completion /\ ret.kind = "id"
    /\ \E i, j \in DOMAIN calls :
          /\ calls[i] = Call("tasks.retrieve", "indexing")
          /\ calls[j] = Call("videos.retrieve", "not indexed")

\* C6: a task poll that reports failed or error is the last call of
\* upload_video: the method has raised an exception that carries that
\* status and the diagnostic of the status object, and has returned nothing.
C6_FailedStatusIsTerminal ==
    \A i \in DOMAIN calls :
        (calls[i].op = "tasks.retrieve" /\ calls[i].obs \in { "failed", "error" }) =>
            /\ i = Len(calls)
            /\ pc = "raised"
            /\ error.type = "Exception"
            /\ error.status = calls[i].obs
            /\ error.details = status.metadata
            /\ ret = NoReturn

\* upload_video raised on a failed status that carried a diagnostic, after
\* a poll that found the task in progress.
C6_Witness ==
    /\ pc = "raised"
    /\ error = [ type |-> "Exception", status |-> "failed", details |-> "diagnostic" ]
    /\ Len(calls) >= 2
    /\ calls[Len(calls) - 1] = Call("tasks.retrieve", "indexing")
    /\ calls[Len(calls)] = Call("tasks.retrieve", "failed")

\* The calls that download, upload, poll or search.
ServiceOps ==
    { "extract_info", "download", "tasks.create", "tasks.retrieve",
      "videos.retrieve", "search.query" }

\* The keywords that make validate_video_content reject or accept.
ExcludeKeywords ==
    { "unboxing only", "reaction video", "roast", "fails compilation",
      "worst builds ever" }

PcRelatedKeywords ==
    { "pc", "computer", "gaming rig", "build", "cpu", "gpu", "motherboard", "ram",
      "graphics", "components", "parts", "install", "setup", "assembly",
      "tutorial", "guide", "how to" }

\* The gate would reject the metadata.
GateWouldReject ==
    metadata.text \cap ExcludeKeywords # {} \/ metadata.text \cap PcRelatedKeywords = {}

\* C7: once process_video is past the gate with metadata the gate rejects,
\* then without skip_validation it has raised the content-mismatch error
\* and no download, upload, poll or search call was made; with
\* skip_validation it has not raised that error and has gone on to
\* upload_video.
C7_ValidationGate ==
    (metadata # NoMetadata /\ pc # "validate" /\ GateWouldReject) =>
        IF skip_validation
        THEN /\ error.type # "ValueError: not a PC building tutorial"
             /\ pc = "upload_start" \/ \E i \in DOMAIN calls : calls[i].op = "extract_info"
        ELSE /\ pc = "raised"
             /\ error.type = "ValueError: not a PC building tutorial"
             /\ ret = NoReturn
             /\ \A i \in DOMAIN calls : calls[i].op \notin ServiceOps

\* process_video raised the content-mismatch error on a video whose text
\* holds an exclusion phrase beside a PC-related keyword.
C7_Witness ==
    /\ ~skip_validation
    /\ metadata.text \cap ExcludeKeywords # {}
    /\ metadata.text \cap PcRelatedKeywords # {}
    /\ pc = "raised"
    /\ error.type = "ValueError: not a PC building tutorial"

\* C8: process_video returns a ProcessedVideo only when no call raised and
\* every query of the list was searched; once a call has raised, the run
\* has raised and returned nothing, whatever steps were accumulated.
C8_NoPartialResult ==
    /\ ret.kind = "video" =>
          /\ faults = 0
          /\ error = NoError
          /\ metadata # NoMetadata
          /\ Cardinality({ i \in DOMAIN calls : calls[i] = Call("search.query", "ok") })
                = Len(SEMANTIC_QUERIES)
          /\ \E i \in DOMAIN calls : calls[i] = Call("videos.retrieve", "indexed")
    /\ faults > 0 => (pc = "raised" /\ error # NoError)
    /\ pc = "raised" => ret = NoReturn

\* A search call raised after an earlier query had yielded a step.
C8_Witness ==
    /\ pc = "raised"
    /\ all_steps # << >>
    /\ calls[Len(calls)] = Call("search.query", "raise")
    /\ ret = NoReturn

\* Clips the service has yielded to the extraction so far.
ClipsYielded ==
    (IF custom_queries = << >> THEN MaxClipsDefault ELSE MaxClips) - remaining

\* C9: no hit makes extract_steps_from_video raise: a hit that cannot be
\* converted, a start or end that is not a number included, is dropped, and
\* the steps of the other hits are returned.
C9_UnconvertibleHitIsDropped ==
    /\ error.type # "ValidationError"
    /\ ret.kind = "steps" => Len(ret.val) + dropped = ClipsYielded

\* C10: search_semantic returns at most page_limit records, and they are
\* the first page_limit clips of the transport result, in its order.
C10_LimitEnforced ==
    ret.kind = "hits" =>
        /\ Len(ret.val) <= page_limit
        /\ Len(ret.val) = Min(page_limit, Len(transport))
        /\ \A i \in DOMAIN ret.val : ret.val[i] = transport[i]

\* The transport yielded more clips than a positive page_limit.
C10_Witness ==
    /\ ret.kind = "hits"
    /\ page_limit > 0
    /\ Len(transport) > page_limit

\* The hit a step was converted from, and the query that found it.
HitOf(step) == results[step.src[2]]

QueryOf(step) == queries[step.src[1]]

\* C12: the description of every step is at most 500 characters long; a
\* hit whose joined transcript is longer yields exactly the first 500
\* characters of it (500 characters, with the keyword occurrences that end
\* within them and no other), and a transcript of 500 characters or fewer
\* is kept as it is.
C12_DescriptionTruncated ==
    \A i \in DOMAIN all_steps :
        LET d == all_steps[i].description
            h == HitOf(all_steps[i])
        IN  /\ d.len <= 500
            /\ (h.has_text /\ h.text_len > 500) =>
                  /\ d.len = 500
                  /\ d.occ = { o \in h.text : o.last <= 500 }
            /\ (h.has_text /\ h.text_len <= 500) =>
                  /\ d.len = h.text_len
                  /\ d.occ = h.text

\* A transcript longer than 500 characters became a description of 500
\* characters that lost a keyword behind the limit and kept one on it.
C12_Witness ==
    /\ Len(all_steps) = 1
    /\ results[1].text_len > 500
    /\ all_steps[1].description.len = 500
    /\ \E o \in results[1].text : o.last > 500
    /\ \E o \in all_steps[1].description.occ : o.last = 500

\* The keywords either detector looks for.
ComponentKeywords ==
    { "cpu", "processor", "ryzen", "intel", "ram", "memory", "dimm", "gpu",
      "graphics card", "video card", "cooler", "heatsink", "fan", "psu",
      "power supply", "ssd", "nvme", "storage", "hard drive", "motherboard",
      "mobo", "cable", "wire", "connector" }

ActionKeywords ==
    { "insert", "installing", "install", "put in", "slot in", "mount", "mounting",
      "screw", "attach", "connect", "plug", "cable", "wire", "align",
      "orientation", "direction", "arrow", "lock", "latch", "secure", "clip",
      "remove", "take out", "uninstall" }

\* C13: a step has the component of its query whenever the query sets one
\* and the action of its query whenever the query sets one, whatever the
\* text of the hit; a field the query leaves unset is the one keyword
\* detection finds in the description, Motherboard (insert) when the
\* description holds no component (action) keyword; each field is decided
\* on its own.
C13_ExpectedWinsOverDetection ==
    \A i \in DOMAIN all_steps :
        LET st == all_steps[i]
            q == QueryOf(st)
            kws == Keywords(st.description)
        IN  /\ q.component # None => st.component = q.component
            /\ q.action # None => st.action = q.action
            /\ q.component = None =>
                  /\ st.component = _detect_component(kws)
                  /\ kws \cap ComponentKeywords = {} => st.component = "Motherboard"
            /\ q.action = None =>
                  /\ st.action = _detect_action(kws)
                  /\ kws \cap ActionKeywords = {} => st.action = "insert"

\* A query that sets the action only met a transcript that names a
\* component and another action: the component was detected, the action
\* is the query's.
C13_Witness ==
    /\ Len(all_steps) = 1
    /\ queries[1].component = None
    /\ queries[1].action = "align"
    /\ "gpu" \in Keywords(all_steps[1].description)
    /\ "screw" \in Keywords(all_steps[1].description)
    /\ all_steps[1].component = "GPU"
    /\ all_steps[1].action = "align"

\* The keywords of each platform.
PlatformKeywords ==
    [ AM5 |-> { "am5", "ryzen 7000", "ryzen 9000" },
      AM4 |-> { "am4", "ryzen 5000", "ryzen 3000" },
      LGA1700 |-> { "lga1700", "12th gen", "13th gen", "14th gen" },
      LGA1200 |-> { "lga1200", "10th gen", "11th gen" } ]

PlatformOrder == << "AM5", "AM4", "LGA1700", "LGA1200" >>

\* C14: the platform of the metadata extract_metadata returns is the first
\* platform, in the order AM5, AM4, LGA1700, LGA1200, one of whose keywords
\* occurs in the lower-cased title and description; it is None, and never
\* the member "unknown", when no keyword occurs; "am5" or "ryzen 9000" in
\* the text gives AM5.
C14_PlatformInference ==
    ret.kind = "metadata" =>
        LET t == source.text
            p == ret.val.platform
            hit(k) == t \cap PlatformKeywords[PlatformOrder[k]] # {}
        IN  /\ \A k \in 1..4 :
                  p = PlatformOrder[k] <=> (hit(k) /\ \A j \in 1..(k - 1) : ~hit(j))
            /\ p = None <=> \A k \in 1..4 : ~hit(k)
            /\ p # "unknown"
            /\ ("am5" \in t \/ "ryzen 9000" \in t) => p = "AM5"

\* Metadata was returned for a text that names an AM4 platform and both
\* Intel platforms: the platform is AM4.
C14_Witness ==
    /\ ret.kind = "metadata"
    /\ source.text = { "am4", "lga1700", "11th gen" }
    /\ ret.val.platform = "AM4"

\* C15: validate_video_content returns false when an exclusion phrase
\* occurs in the title and description, PC-related keywords or not;
\* without exclusion phrase it returns true exactly when a PC-related
\* keyword occurs.
C15_ContentValidation ==
    ret.kind = "bool" =>
        LET excluded == metadata.text \cap ExcludeKeywords # {}
            related == metadata.text \cap PcRelatedKeywords # {}
        IN  /\ excluded => ret.val = FALSE
            /\ ~excluded => (ret.val = related)

\* The check rejected a text that holds an exclusion phrase beside
\* PC-related keywords.
C15_Witness ==
    /\ ret.kind = "bool"
    /\ metadata.text = { "roast", "pc", "build" }
    /\ ret.val = FALSE

\* C16: create_index is idempotent: the indexes this client created on the
\* service bear different names, so a second call with the same name made
\* no second index; such a call leaves the stored index id as the first
\* call set it; and after a call that returned, the stored index_id is the
\* id returned.
C16_CreateIndexIdempotent ==
    /\ \A i, j \in DOMAIN service_indexes :
          service_indexes[i].name = service_indexes[j].name => i = j
    /\ \A i \in DOMAIN service_indexes :
          (service_indexes[i].name = service_indexes[Len(service_indexes)].name)
              => (ret.kind = "id" => index_id = service_indexes[i].id)
    /\ ret.kind = "id" => index_id = ret.val

\* C17: upload_video goes on without downloading only with a cached file
\* that is named by exactly the source video id and an extension and that
\* has at least the sanity size (size 1 in the model; 0 is a file too
\* small to be a video); any other cache content leads to a download.
C17_CacheReuseIsSound ==
    (video_file_path # NoFile /\ \A i \in DOMAIN calls : calls[i].op # "download") =>
        /\ SubSeq(video_file_path.name, 1, Len(video_file_path.name) - 1) = source.id
        /\ video_file_path.size >= 1

\* C18: with the default configuration the k-th search call of
\* extract_steps_from_video carries the text of the k-th predefined query,
\* page limit 10 and the given video id as filter; a search is issued only
\* when every clip yielded so far was converted or dropped; the steps are
\* numbered, and the list returned, only after all 11 searches were made.
C18_DefaultQueriesInOrder ==
    (entry = "extract_steps_from_video" /\ custom_queries = << >>) =>
        /\ Len(searches) <= 11
        /\ \A k \in DOMAIN searches :
              searches[k] = [ query_text |-> SEMANTIC_QUERIES[k].query_text,
                              page_limit |-> 10, filter |-> video_id ]
        /\ \A j, k \in DOMAIN searches :
              j # k => searches[j].query_text # searches[k].query_text
        /\ pc = "search" => Len(all_steps) + dropped = ClipsYielded
        /\ (pc \in { "sort", "done" } \/ \E i \in DOMAIN all_steps : all_steps[i].step_order # 0)
              => Len(searches) = 11
        /\ ret.kind = "steps" => Len(calls) = 11

\* The default run returned a step found by the last of 11 searches.
C18_Witness ==
    /\ entry = "extract_steps_from_video"
    /\ custom_queries = << >>
    /\ ret.kind = "steps"
    /\ Len(searches) = 11
    /\ Len(ret.val) = 1
    /\ ret.val[1].src[1] = 11

\* C19: every step extract_steps_from_video builds has a timestamp whose
\* end is not before its start, whatever start and end the hit carries.
C19_TimestampOrdered ==
    \A i \in DOMAIN all_steps :
        all_steps[i].timestamp.end >= all_steps[i].timestamp.start

\* C20: a poll that finds the task or the video in progress leaves
\* upload_video in its loop, and no count of polls makes it give up: the
\* method leaves the loops only by returning or raising. On a service that
\* at some time reports the task ready and then the video indexed, a call
\* with wait_for_completion that never raises returns in the end, with the
\* video id.
C20_EventuallyReturns ==
    (wait_for_completion /\ index_id # None /\ [](pc # "raised"))
        => <>(pc = "done" /\ ret.kind = "id" /\ ret.val = video_id)

\* upload_video returned after as many in-progress polls as the model follows.
C20_Witness ==
    /\ entry = "upload_video" /\ wait_for_completion
    /\ pc = "done"
    /\ InProgressPolls = MaxPolls
    /\ calls[Len(calls)] = Call("videos.retrieve", "indexed")

\* Python's == on two field values: strings and members of str
\* enumerations compare by their text, numbers by their value.
PyEq(a, b) ==
    LET text(v) == v.k = "str" \/ v.k \in DOMAIN EnumValues
        number(v) == v.k \in { "float", "int" }
    IN  \/ text(a) /\ text(b) /\ a.s = b.s
        \/ number(a) /\ number(b) /\ a.n = b.n
        \/ a.k = "none" /\ b.k = "none"
        \/ a.k = "list" /\ b.k = "list" /\ a.l = b.l

\* C11: the ProcessedVideo load_results builds from the file save_results
\* wrote equals the one saved, field by field: every metadata field with
\* its enumeration members, every step with its enumerations, step_order
\* and timestamp, the service video id, the processing timestamp and the
\* total; and loading that file does not raise.
C11_RoundTrip ==
    /\ processed # NoProcessed => pc # "raised"
    /\ (processed # NoProcessed /\ ret.kind = "loaded") =>
          LET x == processed
              y == ret.val
          IN  /\ \A f \in DOMAIN VideoMetadataFields :
                    /\ PyEq(y.metadata[f], x.metadata[f])
                    /\ y.metadata[f].k = x.metadata[f].k
              /\ Len(y.assembly_steps) = Len(x.assembly_steps)
              /\ \A i \in DOMAIN x.assembly_steps :
                    /\ \A f \in DOMAIN AssemblyStepFields :
                          PyEq(y.assembly_steps[i].fields[f], x.assembly_steps[i].fields[f])
                    /\ \A f \in DOMAIN TimestampFields :
                          y.assembly_steps[i].timestamp[f] = x.assembly_steps[i].timestamp[f]
              /\ \A f \in DOMAIN ProcessedVideoFields : y.fields[f] = x.fields[f]

\* A video with platform member, duration, service id and two steps, one
\* numbered and one holding the default platform member, was saved and
\* loaded.
C11_Witness ==
    /\ processed # NoProcessed
    /\ ret.kind = "loaded"
    /\ processed.metadata.platform = PyEnum("Platform", "AM5")
    /\ processed.metadata.duration_seconds = PyFloat(213)
    /\ processed.fields.twelve_labs_video_id = PyStr("tlv1")
    /\ Len(processed.assembly_steps) = 2
    /\ processed.assembly_steps[1].fields.step_order = PyInt(1)
    /\ processed.assembly_steps[2].fields.platform = PyEnum("Platform", "unknown")
    /\ ret.val.assembly_steps[2].fields.platform = PyStr("unknown")

\* C21: every step has the platform of the metadata handed to the
\* extraction, "unknown" when that platform is None, and the form factor
\* of the metadata, "unknown" when that is None; the hit and the query have
\* no part in either field.
C21_PlatformFromMetadata ==
    \A i \in DOMAIN all_steps :
        /\ metadata.platform # None => all_steps[i].platform = metadata.platform
        /\ metadata.platform = None => all_steps[i].platform = "unknown"
        /\ metadata.form_factor # None => all_steps[i].form_factor = metadata.form_factor
        /\ metadata.form_factor = None => all_steps[i].form_factor = "unknown"

\* A hit whose transcript names another component than the query became a
\* step with the platform AM5 of the metadata and form factor unknown.
C21_Witness ==
    /\ Len(all_steps) = 1
    /\ metadata.platform = "AM5"
    /\ metadata.form_factor = None
    /\ "gpu" \in Keywords(all_steps[1].description)
    /\ queries[1].component = "CPU"
    /\ all_steps[1].platform = "AM5"
    /\ all_steps[1].form_factor = "unknown"

\* C25: the score is an alternative of the label in each tier: a hit
\* labelled low or medium with a score above 0.80 is explicitly_shown, and
\* a hit labelled low with a score above 0.60 and at most 0.80 is
\* verbally_explained; the lower label does not hold the tier back.
C25_ScoreLiftsLowLabel ==
    \A i \in DOMAIN all_steps :
        LET h == HitOf(all_steps[i])
        IN  /\ (h.confidence \in { "low", "medium" } /\ h.score > 80)
                  => all_steps[i].source_confidence = "explicitly_shown"
            /\ (h.confidence = "low" /\ h.score > 60 /\ h.score <= 80)
                  => all_steps[i].source_confidence = "verbally_explained"

\* A hit labelled low with score 0.95 became an explicitly_shown step.
C25_Witness ==
    /\ Len(all_steps) = 1
    /\ results[1].confidence = "low"
    /\ results[1].score = 95
    /\ all_steps[1].source_confidence = "explicitly_shown"

\* C30: the metadata extract_metadata builds has form_factor None whatever
\* the title and description hold, and every step of a ProcessedVideo that
\* process_video returns has form_factor "unknown".
C30_FormFactorNeverInferred ==
    /\ metadata # NoMetadata => metadata.form_factor = None
    /\ \A i \in DOMAIN all_steps : all_steps[i].form_factor = "unknown"
    /\ ret.kind = "video" =>
          /\ ret.val.metadata.form_factor = None
          /\ \A i \in DOMAIN ret.val.assembly_steps :
                ret.val.assembly_steps[i].form_factor = "unknown"

\* process_video returned a video whose text names a form factor, with
\* metadata form_factor None and a step of form factor unknown.
C30_Witness ==
    /\ ret.kind = "video"
    /\ "mini-itx" \in ret.val.metadata.text
    /\ ret.val.metadata.form_factor = None
    /\ Len(ret.val.assembly_steps) = 1
    /\ ret.val.assembly_steps[1].form_factor = "unknown"

\* Two steps that name the same component, action and timestamp interval.
SameSegment(a, b) ==
    /\ a.component = b.component
    /\ a.action = b.action
    /\ a.timestamp = b.timestamp

\* C23: the list extract_steps_from_video returns never holds two steps of
\* the same component, action and timestamp interval.
C23_ResultsDeduplicated ==
    ret.kind = "steps" =>
        \A i, j \in DOMAIN ret.val : SameSegment(ret.val[i], ret.val[j]) => i = j

\* C24: extract_steps_from_video makes exactly one step per convertible hit:
\* while it converts, the steps made, the hits dropped and the hits still to
\* convert add up to the hits the queries returned; the returned list is as
\* long as the hits returned minus the hits dropped, and no hit is the
\* source of two of its steps.
C24_OneStepPerConvertibleHit ==
    /\ (entry = "extract_steps_from_video" /\ pc = "convert") =>
           Len(all_steps) + dropped + (Len(results) - (ri - 1)) = ClipsYielded
    /\ ret.kind = "steps" =>
           /\ Len(ret.val) = ClipsYielded - dropped
           /\ \A i, j \in DOMAIN ret.val : ret.val[i].src = ret.val[j].src => i = j

\* Three hits were returned, one was dropped, and the two steps returned
\* have the same component, action and timestamp interval.
C24_Witness ==
    /\ ret.kind = "steps"
    /\ ClipsYielded = 3
    /\ dropped = 1
    /\ Len(ret.val) = 2
    /\ SameSegment(ret.val[1], ret.val[2])

\* C27: once a task poll of upload_video has observed ready, every later
\* call is a video poll and the ready status is the last status read: the
\* method is in the second loop, or has left it by a poll that found the
\* video indexed, or by a video poll that raised; while it is in the loop
\* every poll since ready found the video not indexed.
C27_NoTaskPollAfterReady ==
    \A i \in DOMAIN calls :
        (entry = "upload_video" /\ calls[i] = Call("tasks.retrieve", "ready")) =>
            /\ \A k \in DOMAIN calls : k > i => calls[k].op = "videos.retrieve"
            /\ status.status = "ready"
            /\ pc \in { "poll_video", "done", "raised" }
            /\ pc = "poll_video" =>
                   \A k \in DOMAIN calls : k > i => calls[k].obs = "not indexed"
            /\ pc = "done" =>
                   (ret.kind = "id" /\ calls[Len(calls)] = Call("videos.retrieve", "indexed"))
            /\ pc = "raised" =>
                   (ret = NoReturn /\ calls[Len(calls)] = Call("videos.retrieve", "raise"))

\* After ready the video was found not indexed MaxPolls times and the
\* method is still in the second loop.
C27_Witness ==
    /\ entry = "upload_video"
    /\ pc = "poll_video"
    /\ Len(calls) >= MaxPolls + 1
    /\ calls[Len(calls) - MaxPolls] = Call("tasks.retrieve", "ready")
    /\ \A k \in DOMAIN calls :
          k > Len(calls) - MaxPolls => calls[k] = Call("videos.retrieve", "not indexed")

C28_UnsetIndexRaisesFirst ==
    /\ [](index_id = None =>
             /\ calls = << >>
             /\ searches = << >>
             /\ faults = 0
             /\ task = None
             /\ video_file_path = NoFile
             /\ ret = NoReturn
             /\ pc \in { "upload_start", "search", "raised" }
             /\ pc = "raised" =>
                    error.type \in { "ValueError", "ValueError: index id not set" })
    /\ [][index_id = None =>
             /\ pc' = "raised"
             /\ index_id' = index_id
             /\ cache' = cache
             /\ UNCHANGED << uploadVars, extractVars, service_indexes, calls, searches >>]_vars

\* search_semantic raised on a client without index id, with a positive
\* page_limit, and no call was made.
C28_Witness ==
    /\ entry = "search_semantic"
    /\ index_id = None
    /\ page_limit > 0
    /\ pc = "raised"
    /\ error.type = "ValueError"
    /\ calls = << >>
    /\ searches = << >>

\* indexes.create calls made so far.
CreateCalls == { i \in DOMAIN calls : calls[i].op = "indexes.create" }

\* C26: a pipeline built with an index id makes no create_index call, in
\* its constructor or later, and its client holds the id supplied; a
\* pipeline built without one makes exactly one, as the first call of all,
\* in its constructor, and its client holds the id of the index created;
\* once the constructor has ended, no step of process_video creates an index
\* or changes the client's index id.
C26_IndexFixedAtConstruction ==
    /\ [](/\ pc = "construct" => CreateCalls = {}
          /\ IndexIdSupplied =>
                 /\ CreateCalls = {}
                 /\ pc # "construct" => index_id = twelve_labs_index_id
          /\ (~IndexIdSupplied /\ pc # "construct") =>
                 /\ CreateCalls = { 1 }
                 /\ calls[1].obs = "ok" =>
                        index_id = service_indexes[Len(service_indexes)].id
                 /\ calls[1].obs = "raise" => (pc = "raised" /\ Len(calls) = 1))
    /\ [][pc # "construct" =>
             (index_id' = index_id /\ service_indexes' = service_indexes)]_vars

\* A pipeline built without index id, on a service that held an index of
\* that name, created a second index and process_video searched and
\* returned a video.
C26_Witness ==
    /\ ~IndexIdSupplied
    /\ index_id = "idx2"
    /\ Len(service_indexes) = 2
    /\ calls[1] = Call("indexes.create", "ok")
    /\ searches # << >>
    /\ ret.kind = "video"

\* C22: concurrent runs for one video coordinate through the directory
\* listing and nothing else. A run goes on to download exactly when its own
\* listing named no file of the video, whatever the other runs are doing, so
\* several runs download at once; a run whose listing named a file uploads
\* that file as it is: a run that uploaded the unfinished file had found it
\* in its listing, did not download, and uploaded it while another run was
\* still writing it.
C22_ListingIsTheOnlyCoordination ==
    \A r \in DOMAIN runs :
        /\ runs[r].pc \in { "download", "downloading" } => runs[r].cached_files = {}
        /\ (runs[r].pc = "done" /\ runs[r].uploaded = PartFile) =>
               /\ PartFile \in runs[r].cached_files
               /\ runs[r].writers # {}
               /\ r \notin runs[r].writers

\* Two runs found no cached file and are both downloading, and a third
\* has uploaded the file one of them is still writing.
C22_Witness ==
    \E a, b, c \in DOMAIN runs :
        /\ a # b
        /\ runs[a].pc = "downloading" /\ runs[a].cached_files = {}
        /\ runs[b].pc = "downloading" /\ runs[b].cached_files = {}
        /\ runs[c].pc = "done"
        /\ runs[c].uploaded = PartFile
        /\ a \in runs[c].writers

====
